---- MODULE Spec2Model ----
(***************************************************************************)
(* Verification model of the ConTXT ingestion pipeline:                    *)
(*   - IngestionManager (app/core/ingestion.py): the in-memory job store,  *)
(*     the four ingest operations and their background tasks;              *)
(*   - the ingestion endpoints (app/api/endpoints/ingestion.py);           *)
(*   - TextProcessor.process and _split_text (text_processor.py) with the  *)
(*     DatabaseAdapter / QdrantClient write path (base.py, qdrant_client); *)
(*   - PrivacyCompliantProcessor (privacy_processor.py).                   *)
(*                                                                         *)
(* A text is represented by its length and the offsets of its space and    *)
(* newline characters; every other character is an ordinary letter.  A     *)
(* chunk is the pair of slice bounds text[lo:hi].  For the privacy filter a text is a        *)
(* sequence of tokens, a token being an ordinary word, a match of one PII  *)
(* pattern, or a redaction marker.                                         *)
(***************************************************************************)
EXTENDS Integers, Sequences, FiniteSets, TLC

\* ------------------------------------------------------------------ bounds
MaxJobs == 1
MaxChunks == 3
MaxPrivCalls == 3
MaxLines == 2
MaxTokens == 3
\* the pieces of a text handed to _redact_text
MaxFrags == 2
MaxRuns == 2

JobIds == 1..MaxJobs
\* one manager built at start-up and one by each submit request
ManagerIds == 1..(MaxJobs + 1)
\* the ids a status request can name: those of the jobs and one more
QueryIds == 1..(MaxJobs + 1)

\* ------------------------------------------------------- program constants
\* kwargs.get("chunk_size", 1024), kwargs.get("chunk_overlap", 128)
DefaultChunkSize == 1024
DefaultChunkOverlap == 128

\* CodeProcessor.create_chunks: kwargs.get('chunk_size', 1000),
\* kwargs.get('chunk_overlap', 100)
CodeChunkSize == 1000
CodeChunkOverlap == 100

\* progress milestones passed to _update_job_status
ProgressInitial == 0
ProgressFetching == 10
\* a second milestone below the first one
ProgressProcessingRegressed == ProgressFetching - 5
ProgressProcessing == 30
ProgressStoring == 70
ProgressCompleted == 100
ProgressFailed == 0

\* ----------------------------------------------------------------- inputs
ShortText == [len |-> 10, spaces |-> {}, newlines |-> {}]
TwoChunkText == [len |-> 1100, spaces |-> {}, newlines |-> {}]
\* one space at offset 127: the first chunk ends at 128 and the next start
\* is 128 - 128 = 0 again
LoopText == [len |-> 1200, spaces |-> {127}, newlines |-> {}]
Texts == {ShortText, TwoChunkText, LoopText}

SourceTypes == {"url", "file", "text", "privacy"}
\* what the fetched or uploaded content is declared to be: text/plain is
\* handled by TextProcessor, "other" stands for the content types of the
\* remaining processors
ContentTypes == {"text/plain", "other"}
\* the argument of an ingest operation: the text of ingest_text; the url,
\* the upload and the privacy content are not read before the task runs
Inputs(st) == IF st = "text" THEN Texts ELSE {ShortText}
\* whether the uploaded file's suffix is a key of EXTENSION_MAPPING
Extensions == {"known", "unknown"}

\* ------------------------------------------------------------ job records
NoneStr == "None"
NoneProgress == 0 - 1
NoChunk == 0 - 1

\* an exception value: its class, and what its text names.  An exception
\* raised by a store client names the store; no raise site is given a chunk
\* index to put into the text
NoExc == [type |-> NoneStr, store |-> NoneStr, chunk |-> NoChunk]
Exc(t) == [type |-> t, store |-> NoneStr, chunk |-> NoChunk]
StoreExc(s) == [type |-> "StoreError", store |-> s, chunk |-> NoChunk]

NoMessage == [prefix |-> NoneStr, cause |-> NoExc]
NoResult ==
  [present |-> FALSE, document_id |-> <<NoneStr, 0>>, chunks_count |-> 0,
   has_enhancements |-> FALSE]

Msg(p) == [prefix |-> p, cause |-> NoExc]
\* f"... failed: {str(e)}"
FailMsg(p, e) == [prefix |-> p, cause |-> e]

\* self.job_store = {}
EmptyStore == [x \in {} |-> 0]
NewManagerStore == EmptyStore

Put(f, k, v) == [x \in (DOMAIN f) \cup {k} |-> IF x = k THEN v ELSE f[x]]

\* self.job_store[job_id] = {"status": "processing", "progress": 0.0, ...}
NewJob(st) ==
  [status |-> "processing", progress |-> ProgressInitial, source_type |-> st,
   message |-> NoMessage, result |-> NoResult]

\* IngestionManager._update_job_status: the mutant writes the update into
\* the record of every job of the store, and makes a record for an id the
\* store does not have
UpdateJobStatusEveryJob(store, job_id, status, progress, message, result) ==
  LET upd(r) == [r EXCEPT !.status = IF status # NoneStr THEN status ELSE @,
                          !.progress = IF progress # NoneProgress THEN progress ELSE @,
                          !.message = IF message # NoMessage THEN message ELSE @,
                          !.result = IF result.present THEN result ELSE @]
  IN [k \in (DOMAIN store) \cup {job_id} |->
        IF k \in DOMAIN store THEN upd(store[k]) ELSE upd(NewJob("text"))]

\* IngestionManager._update_job_status
UpdateJobStatus(store, job_id, status, progress, message, result) ==
  IF job_id \notin DOMAIN store THEN store
  ELSE [store EXCEPT ![job_id] =
          [@ EXCEPT !.status = IF status # NoneStr THEN status ELSE @,
                    !.progress = IF progress # NoneProgress THEN progress ELSE @,
                    !.message = IF message # NoMessage THEN message ELSE @,
                    !.result = IF result.present THEN result ELSE @]]

\* IngestionManager.get_status: the mutant returns a default Job for an
\* unknown id instead of raising
GetStatusDefaulting(store, job_id) ==
  IF job_id \notin DOMAIN store
    THEN [kind |-> "ok", job |-> job_id, status |-> "pending",
          progress |-> ProgressInitial, message |-> NoMessage, result |-> NoResult]
    ELSE [kind |-> "ok", job |-> job_id, status |-> store[job_id].status,
          progress |-> store[job_id].progress, message |-> store[job_id].message,
          result |-> store[job_id].result]

GetStatus(store, job_id) ==
  IF job_id \notin DOMAIN store
    THEN [kind |-> "not_found", job |-> job_id, status |-> NoneStr,
          progress |-> NoneProgress, message |-> NoMessage, result |-> NoResult]
    ELSE [kind |-> "ok", job |-> job_id, status |-> store[job_id].status,
          progress |-> store[job_id].progress, message |-> store[job_id].message,
          result |-> store[job_id].result]

\* the failure prefix of each _process_* handler's except clause
FailurePrefix(st) ==
  CASE st = "url" -> "URL processing failed"
    [] st = "file" -> "File processing failed"
    [] st = "text" -> "Text processing failed"
    [] st = "privacy" -> "Privacy-protected processing failed"

CompletedMessage(st) ==
  CASE st = "url" -> "URL processing completed"
    [] st = "file" -> "File processing completed"
    [] st = "text" -> "Text processing completed"
    [] st = "privacy" -> "Privacy-protected processing completed"

\* document_id = f"{source_type}_{job_id}" of the completed result
ResultDocumentId(st, j) == <<st, j>>

\* ------------------------------------------------- Python string helpers
MaxOf(S) == CHOOSE x \in S : \A y \in S : y <= x

\* how a slice or rfind bound is clipped to the string (negative bounds
\* count from the end)
NormIndex(i, n) ==
  IF i < 0 THEN (IF i + n < 0 THEN 0 ELSE i + n)
  ELSE IF i > n THEN n ELSE i

\* the separators tried in order by _split_text: "\n\n", "\n", ". ", " "
Separators ==
  <<[name |-> "nlnl", len |-> 2], [name |-> "nl", len |-> 1],
    [name |-> "dotsp", len |-> 2], [name |-> "sp", len |-> 1]>>

\* text.rfind(separator, start, end): -1 when there is no occurrence
Rfind(text, sep, start, end) ==
  LET s == NormIndex(start, text.len)
      e == NormIndex(end, text.len)
      occ == CASE sep.name = "sp" -> text.spaces
               [] sep.name = "nl" -> text.newlines
               [] sep.name = "nlnl" -> {p \in text.newlines : p + 1 \in text.newlines}
               [] OTHER -> {}
      cands == {p \in occ : p >= s /\ p + sep.len <= e}
  IN IF cands = {} THEN 0 - 1 ELSE MaxOf(cands)

\* ------------------------------------------------ TextProcessor._split_text
\* the end of the chunk that starts at start (lines 118-127)
ChunkEnd(text, start, chunk_size) ==
  LET end0 == start + chunk_size
      hits == {k \in 1..Len(Separators) :
                 Rfind(text, Separators[k], start, end0) > start}
  IN IF end0 < text.len /\ hits # {}
       THEN LET k == CHOOSE x \in hits : \A y \in hits : x <= y
            IN Rfind(text, Separators[k], start, end0) + Separators[k].len
       ELSE end0

\* chunks.append(...): the list is cut off at MaxChunks entries
AppendBounded(s, x) == IF Len(s) < MaxChunks THEN Append(s, x) ELSE s

\* _split_text(text, chunk_size, chunk_overlap) as a function: the list of
\* chunks, or no return when the loop is still running after MaxChunks
\* passes
RECURSIVE SplitLoop(_, _, _, _, _)
SplitLoop(text, chunk_size, chunk_overlap, start, chunks) ==
  IF start >= text.len THEN [returned |-> TRUE, chunks |-> chunks]
  ELSE IF Len(chunks) >= MaxChunks THEN [returned |-> FALSE, chunks |-> chunks]
  ELSE LET end == ChunkEnd(text, start, chunk_size)
       IN SplitLoop(text, chunk_size, chunk_overlap, end - chunk_overlap,
                    Append(chunks, [lo |-> start, hi |-> end]))

SplitText(text, chunk_size, chunk_overlap) ==
  IF text.len <= chunk_size
    THEN [returned |-> TRUE, chunks |-> <<[lo |-> 0, hi |-> text.len]>>]
    ELSE SplitLoop(text, chunk_size, chunk_overlap, 0, <<>>)

\* ----------------------------------------------------- texts given by lines
\* a text given as the lengths of its lines: the lines are made of letters
\* and joined by "\n"
RECURSIVE SumLines(_)
SumLines(lines) == IF lines = <<>> THEN 0 ELSE Head(lines) + 1 + SumLines(Tail(lines))

\* offset of the first character of line k
LineStart(lines, k) == SumLines(SubSeq(lines, 1, k - 1))

TextOfLines(lines) ==
  [len |-> SumLines(lines) - 1, spaces |-> {},
   newlines |-> {LineStart(lines, k) + lines[k] : k \in 1..(Len(lines) - 1)}]

\* ------------------------------- MarkdownProcessor._structure_aware_split
\* regex.split(text): of the structural separators only the blank-line one,
\* (?=^\s*\n\s*$), can match a text of letters and newlines; it matches at
\* the start of an empty line that is followed by another empty line
SectionCuts(lines) ==
  {LineStart(lines, k) : k \in {x \in 1..(Len(lines) - 1) : lines[x] = 0 /\ lines[x + 1] = 0}}

\* the sections as slices of the text, in order
RECURSIVE SectionsFrom(_, _, _)
SectionsFrom(lo, cuts, len) ==
  IF cuts = {} THEN <<[lo |-> lo, hi |-> len]>>
  ELSE LET c == CHOOSE x \in cuts : \A y \in cuts : x <= y
       IN <<[lo |-> lo, hi |-> c]>> \o SectionsFrom(c, cuts \ {c}, len)

\* the loop that combines the sections into chunks; current_chunk is a
\* slice of the text, empty when lo = hi
RECURSIVE CombineSections(_, _, _, _, _)
CombineSections(sections, chunk_size, chunk_overlap, current, chunks) ==
  IF sections = <<>>
    THEN IF current.hi > current.lo THEN Append(chunks, current) ELSE chunks
  ELSE LET section == Head(sections)
           curlen == current.hi - current.lo
           overlap_start == IF curlen - chunk_overlap > 0 THEN curlen - chunk_overlap ELSE 0
       IN IF curlen + (section.hi - section.lo) > chunk_size /\ curlen > 0
            THEN CombineSections(Tail(sections), chunk_size, chunk_overlap,
                                 [lo |-> current.lo + overlap_start, hi |-> section.hi],
                                 Append(chunks, current))
            ELSE CombineSections(Tail(sections), chunk_size, chunk_overlap,
                                 [lo |-> current.lo, hi |-> section.hi], chunks)

StructureAwareSplit(lines, chunk_size, chunk_overlap) ==
  LET text == TextOfLines(lines)
  IN IF text.len <= chunk_size
       THEN <<[lo |-> 0, hi |-> text.len]>>
       ELSE CombineSections(SectionsFrom(0, SectionCuts(lines), text.len),
                            chunk_size, chunk_overlap, [lo |-> 0, hi |-> 0], <<>>)

\* ------------------------- CodeProcessor.create_chunks without structure
\* the lines carried over into the next chunk: taken from the end of the
\* chunk while they fit into chunk_overlap
RECURSIVE OverlapLines(_, _, _, _, _)
OverlapLines(current_chunk, k, chunk_overlap, overlap_lines, overlap_length) ==
  IF k = 0 THEN overlap_lines
  ELSE IF overlap_length + current_chunk[k] + 1 <= chunk_overlap
    THEN OverlapLines(current_chunk, k - 1, chunk_overlap,
                      <<current_chunk[k]>> \o overlap_lines,
                      overlap_length + current_chunk[k] + 1)
    ELSE overlap_lines

\* the loop over the lines; a chunk is the list of its lines
RECURSIVE CodeChunkLoop(_, _, _, _, _, _, _)
CodeChunkLoop(lines, k, chunk_size, chunk_overlap, current_chunk, current_length, chunks) ==
  IF k > Len(lines)
    THEN IF current_chunk # <<>> THEN Append(chunks, current_chunk) ELSE chunks
  ELSE LET line_length == lines[k] + 1
       IN IF current_length + line_length > chunk_size /\ current_chunk # <<>>
            THEN LET overlap == OverlapLines(current_chunk, Len(current_chunk),
                                             chunk_overlap, <<>>, 0)
                 IN CodeChunkLoop(lines, k + 1, chunk_size, chunk_overlap,
                                  Append(overlap, lines[k]),
                                  SumLines(overlap) + line_length,
                                  Append(chunks, current_chunk))
            ELSE CodeChunkLoop(lines, k + 1, chunk_size, chunk_overlap,
                               Append(current_chunk, lines[k]),
                               current_length + line_length, chunks)

CodeFallbackChunks(lines, chunk_size, chunk_overlap) ==
  CodeChunkLoop(lines, 1, chunk_size, chunk_overlap, <<>>, 0, <<>>)

\* ------------------------------------------------- identifiers and payloads
\* document_id = kwargs.get("document_id", str(uuid.uuid4())): a fresh id
\* for each process call, unrelated to the job id
NoDoc == <<NoneStr, 0>>
NewDocumentId(j) == <<"doc", j>>
\* chunk_metadata["chunk_id"] = f"{document_id}_chunk_{i}"
ChunkId(doc, i) == <<doc, "chunk", i>>

\* chunk_metadata built by TextProcessor.process (lines 67-71)
ChunkMetadata(doc, i, total, chunk) ==
  [id |-> doc, chunk_index |-> i, chunk_total |-> total,
   chunk_id |-> ChunkId(doc, i), lo |-> chunk.lo, hi |-> chunk.hi]

\* DatabaseAdapter.store_in_vector_db: ids=[metadata.get("id")]
VectorPointId(metadata) == metadata.id

\* QdrantClient.store_vectors with one vector: an upsert under ids[0]
StoreVectors(vs, point_id, payload) == Put(vs, point_id, payload)

\* the dict TextProcessor.process returns: it has no "chunks" key
TextProcessResult(doc, chunks, ids) ==
  [has_chunks |-> FALSE, chunks |-> <<>>, document_id |-> doc,
   chunk_count |-> Len(chunks), chunk_ids |-> ids]

\* the dict returned by a processor other than TextProcessor, as far as the
\* manager reads it: c entries under "chunks"
OtherProcessResult(c) == [has_chunks |-> TRUE, chunks |-> [k \in 1..c |-> k]]

\* len(result.get("chunks", []))
ChunksCount(result) == IF result.has_chunks THEN Len(result.chunks) ELSE 0

NoFailure == [store |-> NoneStr, chunk |-> NoChunk]

\* a node and a relationship of the graph store
Node(label, id) == [label |-> label, id |-> id]
Edge(type, from, to) == [type |-> type, from |-> from, to |-> to]
HasNode(nodes, label, id) == \E k \in 1..Len(nodes) : nodes[k] = Node(label, id)

\* whether the processor object has the attribute neo4j_client that
\* _create_chunk_relationship reads: BaseProcessor.__init__ sets only
\* self.db_adapter, the client is self.db_adapter.neo4j_client
HasNeo4jClient == FALSE

\* TextProcessor._create_chunk_relationship(prev_chunk_id, next_chunk_id):
\* MATCH the two Chunk nodes, CREATE the NEXT relationship between them
CreateChunkRelationship(edges, nodes, prev, next) ==
  IF ~HasNeo4jClient
    THEN [raised |-> TRUE, edges |-> edges]
    ELSE [raised |-> FALSE,
          edges |-> IF HasNode(nodes, "Chunk", prev) /\ HasNode(nodes, "Chunk", next)
                      THEN edges \cup {Edge("NEXT", prev, next)} ELSE edges]

\* BaseProcessor.extract_text of a bytes object: str(content), the text
\* b'...': three characters longer, every offset shifted by two, and each
\* newline byte written as the two characters backslash and n
ExtractText(content) ==
  LET before(p) == Cardinality({q \in content.newlines : q < p})
  IN [len |-> content.len + 3 + Cardinality(content.newlines),
      spaces |-> {p + 2 + before(p) : p \in content.spaces},
      newlines |-> {}]

\* what the enhancement capability does when it is asked: no model is
\* configured, the model call raises, it returns an empty answer, or it
\* returns a text
EnhanceOutcomes == {"absent", "raises", "none", "text"}

\* AIEnhancementLayer.enhance_content without its try/except: the model's
\* exception reaches the caller
EnhanceContentUncaught(outcome) ==
  [raised |-> outcome = "raises",
   content |-> IF outcome = "text" THEN "enhanced" ELSE NoneStr]

\* AIEnhancementLayer.enhance_content: None when no model is initialized
\* and when ainvoke raises, otherwise the model's answer
EnhanceContent(outcome) ==
  [raised |-> FALSE,
   content |-> IF outcome = "text" THEN "enhanced" ELSE NoneStr]

\* process_with_enhancements: "if enhanced_content:" guards the two keys
HasEnhancements(enhanced_content) == enhanced_content # NoneStr

\* the except clause of a _process_* handler
FailJob(store, j, st, e) ==
  UpdateJobStatus(store, j, "failed", ProgressFailed,
                  FailMsg(FailurePrefix(st), e), NoResult)

\* the two updates at the end of a _process_* handler's try block
CompleteJob(store, j, st, result, enh) ==
  LET s1 == UpdateJobStatus(store, j, NoneStr, ProgressStoring,
                            Msg("Storing processed content"), NoResult)
  IN UpdateJobStatus(s1, j, "completed", ProgressCompleted,
                     Msg(CompletedMessage(st)),
                     [present |-> TRUE,
                      document_id |-> ResultDocumentId(st, j),
                      chunks_count |-> ChunksCount(result),
                      has_enhancements |-> enh])

\* ------------------------------------------------------------------ state
VARIABLES
  nmgr,         \* number of IngestionManager objects holding a job store
  njob,         \* number of job ids drawn so far
  job_store,    \* job_store[m]: the job_store dict of manager m
  kind,         \* kind[j]: which ingest operation created job j
  jmgr,         \* jmgr[j]: the manager whose background task runs job j
  pc,           \* pc[j]: position of job j's background task
  task,         \* task[j]: the arguments and local variables of the task
  vecStore,     \* the vector collection: point id -> payload
  graphNodes,   \* nodes created in the graph store, in order
  graphEdges,   \* relationships created in the graph store
  linkLog,      \* history: the calls of _create_chunk_relationship
  vecLog,       \* history: the vector writes that were committed
  storeFailure, \* history: storeFailure[j], the store write that raised
  issued,       \* history: job ids returned by the submit endpoints
  fileExt,      \* history: fileExt[j], whether the upload's suffix is mapped
  enhOutcome,   \* history: enhOutcome[j], what the enhancement call did
  lastResp,     \* the answer of the status request being returned, if any
  pconf,        \* configuration of the PrivacyCompliantProcessor
  privResult,   \* result last returned by the wrapper
  embedLog,     \* history: texts passed to the embedding capability
  graphLog,     \* history: chunk texts written to the graph store
  metaLog,      \* history: metadata handed to the base processor's stores
  privCalls,    \* number of calls made on the wrapper
  privErr,      \* exception raised by the latest call on the wrapper
  lastCall,     \* the latest direct call of a processor function
  ingested,     \* history: the direct process calls made, in order
  mdSplit,      \* the _split_text attribute of the MarkdownProcessor object
  mdCall        \* mdCall[c]: the frame of call c of MarkdownProcessor.process

jobVars ==
  <<nmgr, njob, job_store, kind, jmgr, pc, task, vecStore, graphNodes,
    graphEdges, linkLog, vecLog, storeFailure, issued, fileExt, enhOutcome,
    lastResp>>
privVars == <<pconf, privResult, embedLog, graphLog, metaLog, privCalls, privErr>>
directVars == <<lastCall, ingested, mdSplit, mdCall>>
vars == <<jobVars, privVars, directVars>>

storeVars == <<vecStore, graphNodes, graphEdges, linkLog, vecLog, storeFailure>>
idVars == <<nmgr, njob, kind, jmgr, issued>>
histVars == <<fileExt, enhOutcome>>

\* the frame of a task: its text and enable_ai arguments, the locals of
\* TextProcessor.process and _split_text, and the processor's result.  A
\* task that has ended has no frame
NoTask ==
  [text |-> ShortText, enable_ai |-> FALSE, start |-> 0, chunks |-> <<>>,
   i |-> 0, document_id |-> NoDoc, chunk_ids |-> <<>>,
   result |-> OtherProcessResult(0)]

NoResp == [via |-> NoneStr, mgr |-> 0, job |-> 0, resp |-> GetStatus(EmptyStore, 0)]

\* the record of job j, in the store of the manager that runs it
Job(j) == job_store[jmgr[j]][j]
Created(j) == j <= njob
Terminal(j) == Created(j) /\ Job(j).status \in {"completed", "failed"}

\* _split_text has no await in it: while a task is inside it the event
\* loop runs nothing else
InSplit(j) == pc[j] \in {"split_test", "split_body"}
LoopFree == \A k \in JobIds : ~InSplit(k)

\* a step inside _split_text
SplitFrame == UNCHANGED <<lastResp, idVars, histVars, privVars, directVars>>

\* any other step of a background task: get_status has no await in it
\* either, so no task runs between a status request and its answer
TaskGuard ==
  /\ LoopFree
  /\ lastResp = NoResp
  /\ UNCHANGED <<lastResp, idVars, privVars, directVars>>

TaskFrame == TaskGuard /\ UNCHANGED histVars

\* the job ends: the handler's except clause ran
Failed(j, e) ==
  /\ job_store' = [job_store EXCEPT ![jmgr[j]] = FailJob(@, j, kind[j], e)]
  /\ pc' = [pc EXCEPT ![j] = "done"]
  /\ task' = [task EXCEPT ![j] = NoTask]

\* self._update_job_status(job_id, progress=..., message=...)
Progressed(store, j, p, m) == UpdateJobStatus(store, j, NoneStr, p, Msg(m), NoResult)

\* ----------------------------------------------------- IngestionManager API
\* the common body of ingest_url / ingest_file / ingest_text /
\* ingest_with_privacy on manager m: a fresh job id, the initial record and
\* the background task
Submit(m, st, text, ai) ==
  /\ njob < MaxJobs
  /\ njob' = njob + 1
  /\ job_store' = [job_store EXCEPT ![m] = Put(@, njob + 1, NewJob(st))]
  /\ kind' = [kind EXCEPT ![njob + 1] = st]
  /\ jmgr' = [jmgr EXCEPT ![njob + 1] = m]
  /\ task' = [task EXCEPT ![njob + 1] = [NoTask EXCEPT !.text = text, !.enable_ai = ai]]
  /\ pc' = [pc EXCEPT ![njob + 1] = "start"]
  /\ LoopFree
  /\ lastResp = NoResp
  /\ UNCHANGED <<lastResp, storeVars, histVars, privVars, directVars>>

\* a direct call of an ingest operation on an existing manager
Ingest(m, st, text, ai) ==
  /\ m <= nmgr
  /\ Submit(m, st, text, ai)
  /\ UNCHANGED <<nmgr, issued>>

\* POST /url, /file, /text, /privacy: each request builds its own manager
EndpointIngest(st, text, ai) ==
  /\ nmgr' = nmgr + 1
  /\ Submit(nmgr + 1, st, text, ai)
  /\ issued' = issued \cup {njob + 1}

\* IngestionManager.get_status(job_id) on manager m; the id is one drawn
\* so far or the next one, which stands for every unknown id
ManagerGetStatus(m, j) ==
  /\ LoopFree
  /\ lastResp = NoResp
  /\ m <= nmgr
  /\ j <= njob + 1
  /\ lastResp' = [via |-> "manager", mgr |-> m, job |-> j,
                  resp |-> GetStatus(job_store[m], j)]
  /\ UNCHANGED <<idVars, job_store, pc, task, storeVars, histVars, privVars, directVars>>

\* GET /status/{job_id}: a new IngestionManager answers the request; its
\* ValueError becomes the 404 response
EndpointStatus(j) ==
  /\ LoopFree
  /\ lastResp = NoResp
  /\ j <= njob + 1
  /\ lastResp' = [via |-> "endpoint", mgr |-> 0, job |-> j,
                  resp |-> GetStatus(NewManagerStore, j)]
  /\ UNCHANGED <<idVars, job_store, pc, task, storeVars, histVars, privVars, directVars>>

\* the answer of a status request reaches the caller
StatusReturned ==
  /\ lastResp # NoResp
  /\ lastResp' = NoResp
  /\ UNCHANGED <<idVars, job_store, pc, task, storeVars, histVars, privVars, directVars>>

\* ------------------------------------------------------- background tasks
\* entry of TextProcessor.process(content, metadata=metadata) up to the
\* first test of _split_text's loop
BeginText(j, text) ==
  /\ task' = [task EXCEPT ![j] =
       [@ EXCEPT !.text = text, !.document_id = NewDocumentId(j),
                 !.chunk_ids = <<>>, !.i = 0, !.start = 0,
                 !.chunks = IF text.len <= DefaultChunkSize
                              THEN <<[lo |-> 0, hi |-> text.len]>> ELSE <<>>]]
  /\ pc' = [pc EXCEPT ![j] = IF text.len <= DefaultChunkSize THEN "chunk"
                            ELSE "split_test"]

\* the handler's last two updates; the URL handler is still inside its
\* "async with httpx.AsyncClient" block when it makes them
Finish(j, result, enh) ==
  /\ job_store' = [job_store EXCEPT ![jmgr[j]] = CompleteJob(@, j, kind[j], result, enh)]
  /\ pc' = [pc EXCEPT ![j] = IF kind[j] = "url" THEN "client_exit" ELSE "done"]
  /\ task' = [task EXCEPT ![j] = NoTask]

\* _process_text up to the call of processor.process
StartText(j) ==
  /\ pc[j] = "start" /\ kind[j] = "text"
  /\ job_store' = [job_store EXCEPT ![jmgr[j]] =
                     Progressed(@, j, ProgressProcessing, "Processing text")]
  /\ BeginText(j, task[j].text)
  /\ TaskFrame
  /\ UNCHANGED storeVars

\* _split_text: while start < len(text)
SplitTest(j) ==
  /\ pc[j] = "split_test"
  /\ pc' = [pc EXCEPT ![j] = IF task[j].start < task[j].text.len THEN "split_body"
                            ELSE IF task[j].chunks = <<>> THEN "document"
                            ELSE "chunk"]
  /\ SplitFrame
  /\ UNCHANGED <<job_store, task, storeVars>>

\* _split_text: one pass through the loop body
SplitBody(j) ==
  /\ pc[j] = "split_body"
  /\ LET end == ChunkEnd(task[j].text, task[j].start, DefaultChunkSize)
     IN task' = [task EXCEPT ![j] =
          [@ EXCEPT !.chunks = AppendBounded(@, [lo |-> task[j].start, hi |-> end]),
                    !.start = end - DefaultChunkOverlap]]
  /\ pc' = [pc EXCEPT ![j] = "split_test"]
  /\ SplitFrame
  /\ UNCHANGED <<job_store, storeVars>>

\* TextProcessor.process: one pass of the loop over the chunks.  The vector
\* write either raises or commits; for i > 0 _create_chunk_relationship
\* then reads self.neo4j_client, which a TextProcessor does not have
StoreChunk(j) ==
  /\ pc[j] = "chunk"
  /\ LET i == task[j].i
         meta == ChunkMetadata(task[j].document_id, i, Len(task[j].chunks),
                               task[j].chunks[i + 1])
         chunk_id == VectorPointId(meta)
         prev_id == IF i > 0 THEN task[j].chunk_ids[i] ELSE chunk_id
         rel == CreateChunkRelationship(graphEdges, graphNodes, prev_id, chunk_id)
     IN \/ /\ storeFailure' = [storeFailure EXCEPT ![j] = [store |-> "vector", chunk |-> i]]
           /\ Failed(j, StoreExc("vector"))
           /\ UNCHANGED <<vecStore, graphNodes, graphEdges, linkLog, vecLog>>
        \/ /\ vecStore' = StoreVectors(vecStore, chunk_id, meta)
           /\ vecLog' = vecLog \cup {[doc |-> task[j].document_id, chunk_index |-> i]}
           /\ linkLog' = IF i > 0
                            THEN linkLog \cup {[doc |-> task[j].document_id, chunk_index |-> i,
                                                prev |-> prev_id, next |-> chunk_id]}
                            ELSE linkLog
           /\ graphEdges' = IF i > 0 THEN rel.edges ELSE graphEdges
           /\ IF i > 0 /\ rel.raised
                THEN Failed(j, Exc("AttributeError"))
                ELSE /\ task' = [task EXCEPT ![j] =
                           [@ EXCEPT !.i = i + 1,
                                     !.chunk_ids = Append(@, chunk_id)]]
                     /\ pc' = [pc EXCEPT ![j] = IF i + 1 < Len(task[j].chunks)
                                                 THEN "chunk" ELSE "document"]
                     /\ UNCHANGED job_store
           /\ UNCHANGED <<graphNodes, storeFailure>>
  /\ TaskFrame

\* TextProcessor.process after the loop: the Document node is created and
\* the result returned; without enable_ai the handler finishes at once
StoreDocument(j) ==
  /\ pc[j] = "document"
  /\ \/ /\ storeFailure' = [storeFailure EXCEPT ![j] = [store |-> "graph", chunk |-> NoChunk]]
        /\ Failed(j, StoreExc("graph"))
        /\ UNCHANGED <<vecStore, graphNodes, graphEdges, linkLog, vecLog>>
     \/ /\ graphNodes' = Append(graphNodes, Node("Document", task[j].document_id))
        /\ LET result == TextProcessResult(task[j].document_id, task[j].chunks,
                                           task[j].chunk_ids)
           IN IF task[j].enable_ai
                THEN /\ task' = [task EXCEPT ![j] = [@ EXCEPT !.result = result]]
                     /\ pc' = [pc EXCEPT ![j] = "enhance"]
                     /\ UNCHANGED job_store
                ELSE Finish(j, result, FALSE)
        /\ UNCHANGED <<vecStore, graphEdges, linkLog, vecLog, storeFailure>>
  /\ TaskFrame

\* process_with_enhancements after self.process returned: the enhancement
\* call is made, and the handler finishes with the result it gets back
Enhance(j, outcome) ==
  /\ pc[j] = "enhance"
  /\ enhOutcome' = [enhOutcome EXCEPT ![j] = outcome]
  /\ LET r == EnhanceContent(outcome)
     IN IF r.raised
          THEN Failed(j, Exc("EnhancementError"))
          ELSE Finish(j, task[j].result, HasEnhancements(r.content))
  /\ TaskGuard
  /\ UNCHANGED <<storeVars, fileExt>>

\* _process_url up to the request
StartUrl(j) ==
  /\ pc[j] = "start" /\ kind[j] = "url"
  /\ job_store' = [job_store EXCEPT ![jmgr[j]] =
                     Progressed(@, j, ProgressFetching, "Fetching URL content")]
  /\ pc' = [pc EXCEPT ![j] = "fetch"]
  /\ TaskFrame
  /\ UNCHANGED <<task, storeVars>>

\* _process_url: client.get / raise_for_status raise, or the response
\* arrives and its bytes go to the processor of its content type
Fetch(j) ==
  /\ pc[j] = "fetch"
  /\ \/ Failed(j, Exc("HTTPError"))
     \/ \E ct \in ContentTypes, content \in Texts :
          /\ job_store' = [job_store EXCEPT ![jmgr[j]] =
                             Progressed(@, j, ProgressProcessing, "Processing content")]
          /\ IF ct = "text/plain"
               THEN BeginText(j, ExtractText(content))
               ELSE /\ pc' = [pc EXCEPT ![j] = "other"]
                    /\ UNCHANGED task
  /\ TaskFrame
  /\ UNCHANGED storeVars

\* the exit of "async with httpx.AsyncClient(...)" after the completed
\* update: closing the client returns or raises inside the try block
ClientExit(j) ==
  /\ pc[j] = "client_exit"
  /\ \/ /\ pc' = [pc EXCEPT ![j] = "done"]
        /\ UNCHANGED <<job_store, task>>
     \/ Failed(j, Exc("CloseError"))
  /\ TaskFrame
  /\ UNCHANGED storeVars

\* _process_file up to "await file.read()"
StartFile(j) ==
  /\ pc[j] = "start" /\ kind[j] = "file"
  /\ job_store' = [job_store EXCEPT ![jmgr[j]] =
                     Progressed(@, j, ProgressFetching, "Saving file")]
  /\ pc' = [pc EXCEPT ![j] = "read"]
  /\ TaskFrame
  /\ UNCHANGED <<task, storeVars>>

\* _process_file from the read on.  A suffix of EXTENSION_MAPPING makes
\* get_processor_for_file pass file_path to a constructor that rejects it;
\* otherwise get_optimal_processor chooses, and a TextProcessor awaits the
\* bytes returned by the open file's read()
ReadFile(j) ==
  /\ pc[j] = "read"
  /\ \/ Failed(j, Exc("ReadError")) /\ UNCHANGED fileExt
     \/ \E ext \in Extensions, ct \in ContentTypes :
          /\ fileExt' = [fileExt EXCEPT ![j] = ext]
          /\ LET s30 == Progressed(job_store[jmgr[j]], j, ProgressProcessing,
                                   "Processing file")
             IN IF ext = "known" \/ ct = "text/plain"
                  THEN /\ job_store' = [job_store EXCEPT ![jmgr[j]] =
                                          FailJob(s30, j, kind[j], Exc("TypeError"))]
                       /\ pc' = [pc EXCEPT ![j] = "done"]
                       /\ task' = [task EXCEPT ![j] = NoTask]
                  ELSE /\ job_store' = [job_store EXCEPT ![jmgr[j]] = s30]
                       /\ pc' = [pc EXCEPT ![j] = "other"]
                       /\ UNCHANGED task
  /\ TaskGuard
  /\ UNCHANGED <<storeVars, enhOutcome>>

\* _process_with_privacy: get_special_processor("privacy", ...) is called
\* without base_processor, so the constructor raises
StartPrivacy(j) ==
  /\ pc[j] = "start" /\ kind[j] = "privacy"
  /\ job_store' = [job_store EXCEPT ![jmgr[j]] =
       FailJob(Progressed(@, j, ProgressFetching, "Applying privacy protection"),
               j, kind[j], Exc("TypeError"))]
  /\ pc' = [pc EXCEPT ![j] = "done"]
  /\ task' = [task EXCEPT ![j] = NoTask]
  /\ TaskFrame
  /\ UNCHANGED storeVars

\* processor.process of a processor other than TextProcessor: it raises,
\* or returns a dict with c chunks
OtherProcess(j) ==
  /\ pc[j] = "other"
  /\ \/ Failed(j, Exc("ProcessingError"))
     \/ \E c \in 0..1 :
          IF task[j].enable_ai
            THEN /\ task' = [task EXCEPT ![j] = [@ EXCEPT !.result = OtherProcessResult(c)]]
                 /\ pc' = [pc EXCEPT ![j] = "enhance"]
                 /\ UNCHANGED job_store
            ELSE Finish(j, OtherProcessResult(c), FALSE)
  /\ TaskFrame
  /\ UNCHANGED storeVars

\* ------------------------------------------- PrivacyCompliantProcessor
\* PII_PATTERNS, in the order of the dict
PII_PATTERNS == <<"email", "phone", "ssn", "credit_card", "ip_address">>
PiiTypes == {PII_PATTERNS[k] : k \in 1..Len(PII_PATTERNS)}

Word == [kind |-> "word", type |-> NoneStr]
Pii(t) == [kind |-> "pii", type |-> t]
\* f"[REDACTED:{pii_type}]"
Marker(t) == [kind |-> "marker", type |-> t]

PrivTexts ==
  {<<Word>>, <<Pii("email")>>, <<Word, Pii("phone")>>,
   <<Pii("email"), Pii("phone")>>}
\* the pii_types argument: empty stands for None
PiiTypesArgs == {{}, {"email"}, {"phone"}}
BaseKinds == {"code", "text"}

NoConf == [base |-> NoneStr, redact_pii |-> FALSE, pii_types |-> {}]
NoPrivResult == [chunks |-> <<>>, extracted_text |-> <<>>, privacy |-> EmptyStore]

\* self.pii_types = set(pii_types) if pii_types else set(PII_PATTERNS.keys())
EnabledTypes(arg) == IF arg # {} THEN arg ELSE PiiTypes

\* self.patterns: the enabled patterns in PII_PATTERNS order
Patterns(conf) ==
  SelectSeq(PII_PATTERNS, LAMBDA t : t \in conf.pii_types)

\* one pass of _redact_text's loop: every match of pattern t is replaced
RedactPattern(text, t) ==
  [k \in 1..Len(text) |-> IF text[k] = Pii(t) THEN Marker(t) ELSE text[k]]

RECURSIVE RedactWith(_, _)
RedactWith(text, patterns) ==
  IF patterns = <<>> THEN text
  ELSE RedactWith(RedactPattern(text, Head(patterns)), Tail(patterns))

\* _redact_text(text)[0]
RedactText(conf, text) == RedactWith(text, Patterns(conf))

\* _redact_text(text)[1]: redacted_counts
RedactCounts(conf, text) ==
  LET n(t) == Cardinality({k \in 1..Len(text) : text[k] = Pii(t)})
  IN [t \in {u \in conf.pii_types : n(u) > 0} |-> n(t)]

\* redacted_items[pii_type] = redacted_items.get(pii_type, 0) + count
AddCounts(a, b) ==
  [t \in (DOMAIN a) \cup (DOMAIN b) |->
     (IF t \in DOMAIN a THEN a[t] ELSE 0) + (IF t \in DOMAIN b THEN b[t] ELSE 0)]

RECURSIVE SumCounts(_, _)
SumCounts(conf, cs) ==
  IF cs = <<>> THEN EmptyStore
  ELSE AddCounts(RedactCounts(conf, Head(cs).text), SumCounts(conf, Tail(cs)))

RedactChunks(conf, cs) ==
  [k \in 1..Len(cs) |-> [text |-> RedactText(conf, cs[k].text)]]

\* CodeProcessor.create_chunks for a short text without structure: the
\* lines are accumulated into one chunk
BaseCreateChunks(text) == <<[text |-> text]>>

\* CodeProcessor.process: the chunks and the extracted text, nothing is
\* embedded or stored
BaseProcess(content) ==
  [chunks |-> BaseCreateChunks(content), extracted_text |-> content,
   privacy |-> EmptyStore]

\* PrivacyCompliantProcessor.process after base_processor.process returned
WrapProcess(conf, result) ==
  IF ~conf.redact_pii THEN result
  ELSE LET items == AddCounts(SumCounts(conf, result.chunks),
                              RedactCounts(conf, result.extracted_text))
       IN [chunks |-> RedactChunks(conf, result.chunks),
           extracted_text |-> RedactText(conf, result.extracted_text),
           privacy |-> items]

\* the embedding capability behind base_processor.get_embeddings: it
\* receives the text as it is passed
EmbedText(log, text) == log \cup {text}

\* the graph store behind base_processor.graph_db: create_node('Chunk', ...)
\* keeps the chunk's text
WriteChunkNodes(log, texts) == log \cup texts

\* the texts of a list of chunks
ChunkTexts(cs) == {cs[k].text : k \in 1..Len(cs)}

\* CodeProcessor.store_in_vector_db: self.get_embeddings(chunk['text']) for
\* each chunk in turn
RECURSIVE EmbedChunks(_, _)
EmbedChunks(log, cs) ==
  IF cs = <<>> THEN log ELSE EmbedChunks(EmbedText(log, Head(cs).text), Tail(cs))

\* result['metadata'] of the result the wrapper returned last: process
\* writes a privacy block into it when something was redacted
ResultMetadata(result) ==
  IF result.privacy # EmptyStore
    THEN "privacy" :> ("redacted" :> TRUE @@ "redacted_items" :> result.privacy)
    ELSE EmptyStore

\* what a caller can pass as metadata: a dict of its own without a privacy
\* entry, or the metadata of the result the wrapper returned last
MetadataArgs == {EmptyStore, ResultMetadata(privResult)}

\* store_in_graph and store_in_vector_db: the privacy block is added when
\* the metadata has no 'privacy' key
AddPrivacy(conf, metadata) ==
  IF "privacy" \in DOMAIN metadata
    THEN metadata
    ELSE metadata @@
           ("privacy" :> ("redacted" :> conf.redact_pii @@
                          "pii_types_checked" :> conf.pii_types))

\* what a caller can pass as chunks: chunks of its own, or the chunks the
\* wrapper returned last
ChunkArgs == {<<[text |-> t]>> : t \in PrivTexts} \cup {privResult.chunks}

Constructed == pconf.base # NoneStr
CanCall == Constructed /\ privCalls < MaxPrivCalls

\* PrivacyCompliantProcessor(base_processor, redact_pii, pii_types)
PrivConstruct(base, redact, arg) ==
  /\ ~Constructed
  /\ pconf' = [base |-> base, redact_pii |-> redact, pii_types |-> EnabledTypes(arg)]
  /\ UNCHANGED <<privResult, embedLog, graphLog, metaLog, privCalls, privErr, jobVars,
                 directVars>>

\* the wrapper's call raised before anything was embedded or written
PrivRaise(e) ==
  /\ privErr' = e
  /\ UNCHANGED <<privResult, embedLog, graphLog, metaLog>>

\* PrivacyCompliantProcessor.process(content, metadata): the metadata goes
\* to base_processor.process as a second positional argument, which
\* TextProcessor.process(self, content, **kwargs) does not take
PrivProcess(content) ==
  /\ CanCall
  /\ privCalls' = privCalls + 1
  /\ IF pconf.base = "text"
       THEN PrivRaise("TypeError")
       ELSE /\ privResult' = WrapProcess(pconf, BaseProcess(content))
            /\ privErr' = NoneStr
            /\ UNCHANGED <<embedLog, graphLog, metaLog>>
  /\ UNCHANGED <<pconf, jobVars, directVars>>

\* PrivacyCompliantProcessor.create_chunks(text)
PrivCreateChunks(text) ==
  /\ CanCall
  /\ privCalls' = privCalls + 1
  /\ IF pconf.base = "text"
       THEN PrivRaise("AttributeError")
       ELSE /\ privResult' =
                 [privResult EXCEPT !.chunks =
                    IF pconf.redact_pii
                      THEN RedactChunks(pconf, BaseCreateChunks(text))
                      ELSE BaseCreateChunks(text)]
            /\ privErr' = NoneStr
            /\ UNCHANGED <<embedLog, graphLog, metaLog>>
  /\ UNCHANGED <<pconf, jobVars, directVars>>

\* PrivacyCompliantProcessor.get_embeddings(text)
PrivGetEmbeddings(text) ==
  /\ CanCall
  /\ privCalls' = privCalls + 1
  /\ embedLog' = EmbedText(embedLog,
       IF pconf.redact_pii THEN RedactText(pconf, text) ELSE text)
  /\ privErr' = NoneStr
  /\ UNCHANGED <<pconf, privResult, graphLog, metaLog, jobVars, directVars>>

\* PrivacyCompliantProcessor.store_in_graph(document_id, metadata, chunks):
\* the chunks go to base_processor.store_in_graph as they are, which
\* writes chunk['text'] into a Chunk node
PrivStoreInGraph(metadata, cs) ==
  /\ CanCall
  /\ privCalls' = privCalls + 1
  /\ IF pconf.base = "text"
       THEN PrivRaise("AttributeError")
       ELSE /\ graphLog' = WriteChunkNodes(graphLog, ChunkTexts(cs))
            /\ metaLog' = metaLog \cup {AddPrivacy(pconf, metadata)}
            /\ privErr' = NoneStr
            /\ UNCHANGED <<privResult, embedLog>>
  /\ UNCHANGED <<pconf, jobVars, directVars>>

\* PrivacyCompliantProcessor.store_in_vector_db(document_id, metadata,
\* chunks): the chunks go to base_processor.store_in_vector_db as they
\* are, which embeds chunk['text'] with its own get_embeddings
PrivStoreInVectorDb(metadata, cs) ==
  /\ CanCall
  /\ privCalls' = privCalls + 1
  /\ IF pconf.base = "text"
       THEN PrivRaise("TypeError")
       ELSE /\ embedLog' = EmbedChunks(embedLog, cs)
            /\ metaLog' = metaLog \cup {AddPrivacy(pconf, metadata)}
            /\ privErr' = NoneStr
            /\ UNCHANGED <<privResult, graphLog>>
  /\ UNCHANGED <<pconf, jobVars, directVars>>

\* ----------------------- HTMLProcessor.create_chunks, PDFProcessor.create_chunks
\* an extracted text is a sequence of tokens, each one character long: a
\* body word or an occurrence of a heading title; the token at offset p is
\* text[p + 1]
Titles == {"A", "B"}
BodyWord == "w"
TokenTexts == UNION {[1..n -> Titles \cup {BodyWord}] : n \in 0..MaxTokens}

\* the structure argument: None, or a dict with its lists
NoStructure == [present |-> FALSE, headings |-> <<>>, toc |-> <<>>, headers |-> <<>>]
HeadingLists == UNION {[1..n -> {[text |-> t, level |-> 1] : t \in Titles}] : n \in 0..2}
HtmlStructures ==
  {NoStructure} \cup
  {[present |-> TRUE, headings |-> h, toc |-> <<>>, headers |-> <<>>] : h \in HeadingLists}
TocLists ==
  {<<>>, <<[title |-> "A", page |-> 1, level |-> 1]>>,
   <<[title |-> "A", page |-> 2, level |-> 1], [title |-> "B", page |-> 1, level |-> 2]>>}
HeaderLists == {<<>>, <<[text |-> "B", page |-> 1]>>, <<[text |-> "A", page |-> 3]>>}
PdfStructures ==
  {NoStructure} \cup
  {[present |-> TRUE, headings |-> <<>>, toc |-> t, headers |-> h] :
     t \in TocLists, h \in HeaderLists}

\* super().create_chunks(text, **kwargs): BaseProcessor, the only base
\* class, defines no create_chunks
SuperCreateChunks(text) == [kind |-> "AttributeError", chunks |-> <<>>]

\* a 'section' chunk: text[lo:hi] under the heading it follows
Section(lo, hi, heading) == [lo |-> lo, hi |-> hi, type |-> "section", heading |-> heading]

\* list.sort(key=...): a stable sort, by insertion; keys[k] is the key of
\* seq[k]
RECURSIVE InsertByKey(_, _)
InsertByKey(sorted, x) ==
  IF sorted = <<>> THEN <<x>>
  ELSE IF Head(sorted).key <= x.key
    THEN <<Head(sorted)>> \o InsertByKey(Tail(sorted), x)
    ELSE <<x>> \o sorted

RECURSIVE SortKeyed(_)
SortKeyed(seq) ==
  IF seq = <<>> THEN <<>>
  ELSE InsertByKey(SortKeyed(SubSeq(seq, 1, Len(seq) - 1)), seq[Len(seq)])

SortByKey(seq, keys) ==
  LET sorted == SortKeyed([k \in 1..Len(seq) |-> [key |-> keys[k], val |-> seq[k]]])
  IN [k \in 1..Len(sorted) |-> sorted[k].val]

\* re.finditer(re.escape(heading_text), text): the offsets of the matches,
\* in order
RECURSIVE MatchesFrom(_, _, _)
MatchesFrom(text, title, p) ==
  IF p >= Len(text) THEN <<>>
  ELSE (IF text[p + 1] = title THEN <<p>> ELSE <<>>) \o MatchesFrom(text, title, p + 1)

\* the markers of HTMLProcessor.create_chunks before they are sorted
RECURSIVE HtmlMarkers(_, _)
HtmlMarkers(text, headings) ==
  IF headings = <<>> THEN <<>>
  ELSE LET h == Head(headings)
           ms == MatchesFrom(text, h.text, 0)
       IN [k \in 1..Len(ms) |-> [text |-> h.text, position |-> ms[k], level |-> h.level]]
            \o HtmlMarkers(text, Tail(headings))

\* the loop over the sorted markers
RECURSIVE HtmlSplit(_, _, _, _)
HtmlSplit(markers, i, current_pos, chunks) ==
  IF i > Len(markers) THEN [pos |-> current_pos, chunks |-> chunks]
  ELSE LET marker_pos == markers[i].position
       IN HtmlSplit(markers, i + 1, marker_pos + 1,
                    IF i > 1 /\ marker_pos > current_pos
                      THEN Append(chunks, Section(current_pos, marker_pos, markers[i - 1].text))
                      ELSE chunks)

\* the final section, then return chunks
FinalSection(text, r, heading) ==
  [kind |-> "ok",
   chunks |-> IF r.pos < Len(text)
                THEN Append(r.chunks, Section(r.pos, Len(text), heading))
                ELSE r.chunks]

HtmlCreateChunks(text, structure) ==
  IF structure.present /\ structure.headings # <<>>
    THEN LET found == HtmlMarkers(text, structure.headings)
             markers == SortByKey(found, [k \in 1..Len(found) |-> found[k].position])
         IN IF markers # <<>>
              THEN FinalSection(text, HtmlSplit(markers, 1, 0, <<>>),
                                markers[Len(markers)].text)
              ELSE SuperCreateChunks(text)
    ELSE SuperCreateChunks(text)

\* the sections of PDFProcessor.create_chunks: the TOC items, then the
\* detected headers whose text is not yet a section title
RECURSIVE AddHeaders(_, _)
AddHeaders(sections, headers) ==
  IF headers = <<>> THEN sections
  ELSE LET h == Head(headers)
       IN AddHeaders(IF \E k \in 1..Len(sections) : sections[k].title = h.text
                       THEN sections
                       ELSE Append(sections, [title |-> h.text, page |-> h.page, level |-> 1]),
                     Tail(headers))

\* text.find(title, current_pos): -1 when the title does not occur
Find(text, title, from) ==
  LET hits == {p \in from..(Len(text) - 1) : text[p + 1] = title}
  IN IF hits = {} THEN 0 - 1 ELSE CHOOSE p \in hits : \A q \in hits : p <= q

\* the loop over the sorted sections
RECURSIVE PdfSplit(_, _, _, _, _)
PdfSplit(text, sections, i, current_pos, chunks) ==
  IF i > Len(sections) THEN [pos |-> current_pos, chunks |-> chunks]
  ELSE LET section_pos == Find(text, sections[i].title, current_pos)
       IN IF section_pos # 0 - 1
            THEN PdfSplit(text, sections, i + 1, section_pos + 1,
                          IF i > 1 /\ section_pos > current_pos
                            THEN Append(chunks, Section(current_pos, section_pos,
                                                        sections[i - 1].title))
                            ELSE chunks)
            ELSE PdfSplit(text, sections, i + 1, current_pos, chunks)

PdfCreateChunks(text, structure) ==
  IF structure.present /\ (structure.toc # <<>> \/ structure.headers # <<>>)
    THEN LET listed == AddHeaders(structure.toc, structure.headers)
             sections == SortByKey(listed, [k \in 1..Len(listed) |-> listed[k].page])
         IN IF sections # <<>>
              THEN FinalSection(text, PdfSplit(text, sections, 1, 0, <<>>),
                                sections[Len(sections)].title)
              ELSE SuperCreateChunks(text)
    ELSE SuperCreateChunks(text)

\* ------------------------------ CodeProcessor.create_chunks with structure
\* the 'start' offsets of the structure elements found in a text of
\* MaxTokens characters or fewer, none of them whitespace, in the order of
\* structure.items()
ElementStarts(len) == UNION {[1..n -> 0..(len - 1)] : n \in 1..2}

\* the structure-aware branch: the elements sorted by start, one chunk
\* text[start:next_start] for each, the empty ones skipped
CodeStructureChunks(len, starts) ==
  LET all_elements == SortByKey(starts, starts)
      cut == [i \in 1..Len(all_elements) |->
                [lo |-> all_elements[i],
                 hi |-> IF i < Len(all_elements) THEN all_elements[i + 1] ELSE len]]
      NotEmpty(c) == c.lo < c.hi
  IN SelectSeq(cut, NotEmpty)

\* ------------------------------------- TextProcessor.process, called directly
\* the document_id keyword a caller passes to process
DocumentIds == {<<"given", 1>>, <<"given", 2>>}

\* the loop of TextProcessor.process over the chunks, run to its end or to
\* the exception of _create_chunk_relationship; the stores are available
RECURSIVE ProcessChunks(_, _, _, _, _, _, _)
ProcessChunks(doc, chunks, i, chunk_ids, vs, edges, nodes) ==
  IF i >= Len(chunks)
    THEN [raised |-> FALSE, chunk_ids |-> chunk_ids, vecStore |-> vs, edges |-> edges]
    ELSE LET meta == ChunkMetadata(doc, i, Len(chunks), chunks[i + 1])
             chunk_id == VectorPointId(meta)
             stored == StoreVectors(vs, chunk_id, meta)
             prev_id == IF i > 0 THEN chunk_ids[i] ELSE chunk_id
             rel == CreateChunkRelationship(edges, nodes, prev_id, chunk_id)
         IN IF i > 0 /\ rel.raised
              THEN [raised |-> TRUE, chunk_ids |-> Append(chunk_ids, chunk_id),
                    vecStore |-> stored, edges |-> edges]
              ELSE ProcessChunks(doc, chunks, i + 1, Append(chunk_ids, chunk_id), stored,
                                 IF i > 0 THEN rel.edges ELSE edges, nodes)

\* ------------------------------------------------ MarkdownProcessor.process
\* a line of a markdown text: hashes '#' characters, then a space or none,
\* then text that has no whitespace at its ends and does not begin with
\* '#', '*', '-', '`' or a digit; text_len is the length of the text and
\* text_spaces the offsets of the spaces in it
MdLine(hashes, space, text, text_len, text_spaces) ==
  [hashes |-> hashes, space |-> space, text |-> text, text_len |-> text_len,
   text_spaces |-> text_spaces]
Blank == MdLine(0, FALSE, "", 0, {})

\* '# Title', '', 'Body text.', '', '## Section', '', 'More text.'
ScenarioDoc ==
  <<MdLine(1, TRUE, "Title", 5, {}), Blank, MdLine(0, FALSE, "Body text.", 10, {4}), Blank,
    MdLine(2, TRUE, "Section", 7, {}), Blank, MdLine(0, FALSE, "More text.", 10, {4})>>
\* the same with bodies of 600 characters, and texts without a header
MdDocs ==
  {ScenarioDoc,
   <<MdLine(1, TRUE, "Title", 5, {}), MdLine(0, FALSE, "body", 600, {}),
     MdLine(2, TRUE, "Section", 7, {}), MdLine(0, FALSE, "more", 600, {})>>,
   <<MdLine(1, FALSE, "Title", 5, {}), MdLine(0, FALSE, "body", 10, {})>>,
   <<MdLine(0, FALSE, "body", 600, {}), Blank, Blank, MdLine(0, FALSE, "more", 600, {})>>}

\* ^(#{1,6})\s+(.+)$ matches the line
IsHeader(line) == line.hashes \in 1..6 /\ line.space /\ line.text_len > 0

\* MarkdownProcessor._extract_headers: the (level, header) pairs in order
ExtractHeaders(md) ==
  LET Matches(line) == IsHeader(line)
      found == SelectSeq(md, Matches)
  IN [k \in 1..Len(found) |-> <<found[k].hashes, found[k].text>>]

\* the lengths of the lines
LineLens(md) ==
  [k \in 1..Len(md) |->
     md[k].hashes + (IF md[k].space THEN 1 ELSE 0) + md[k].text_len]

\* the markdown text as _split_text reads it
MdText(md) ==
  LET lines == LineLens(md)
      indent(k) == md[k].hashes + (IF md[k].space THEN 1 ELSE 0)
  IN [TextOfLines(lines) EXCEPT !.spaces =
        UNION {(IF md[k].space THEN {LineStart(lines, k) + md[k].hashes} ELSE {})
                 \cup {LineStart(lines, k) + indent(k) + q : q \in md[k].text_spaces} :
               k \in 1..Len(md)}]

\* MarkdownProcessor._structure_aware_split of a markdown text: the header
\* separator matches at the start of each header line, the blank-line one
\* as in SectionCuts
MdStructureAwareSplit(md, chunk_size, chunk_overlap) ==
  LET lines == LineLens(md)
      text == MdText(md)
      cuts == SectionCuts(lines) \cup
                {LineStart(lines, k) : k \in {x \in 1..Len(md) : IsHeader(md[x])}}
  IN IF text.len <= chunk_size
       THEN <<[lo |-> 0, hi |-> text.len]>>
       ELSE CombineSections(SectionsFrom(0, cuts, text.len),
                            chunk_size, chunk_overlap, [lo |-> 0, hi |-> 0], <<>>)

\* self._split_text(content, chunk_size, chunk_overlap) with the attribute
\* as it is at the call
MdSplitWith(attr, md) ==
  IF attr = "structure_aware"
    THEN [returned |-> TRUE,
          chunks |-> MdStructureAwareSplit(md, DefaultChunkSize, DefaultChunkOverlap)]
    ELSE SplitText(MdText(md), DefaultChunkSize, DefaultChunkOverlap)

\* ------------------------------------- ProcessorFactory.get_processor_for_file
\* EXTENSION_MAPPING, one suffix or more of every processor class
EXTENSION_MAPPING ==
  [e \in {".txt", ".md", ".json", ".csv", ".pdf", ".html", ".png", ".py", ".rs"} |->
     CASE e = ".txt" -> "TextProcessor"
       [] e = ".md" -> "MarkdownProcessor"
       [] e = ".json" -> "JsonProcessor"
       [] e = ".csv" -> "CsvProcessor"
       [] e = ".pdf" -> "PDFProcessor"
       [] e = ".html" -> "HTMLProcessor"
       [] e = ".png" -> "ImageProcessor"
       [] OTHER -> "CodeProcessor"]

\* the suffixes of the file paths asked for: the mapped ones, an unmapped
\* one and none
Suffixes == DOMAIN EXTENSION_MAPPING \cup {".xyz", ""}

\* the keyword parameters BaseProcessor.__init__ accepts; it takes no **kwargs
BaseInitParams == {"dataset_name", "use_cognee", "enable_ai"}

\* the keyword parameters a class's own __init__ names before it hands the
\* remaining ones to super().__init__(**kwargs); a class without __init__
\* names none
OwnInitParams(class) ==
  CASE class = "CodeProcessor" ->
         {"extract_structure", "extract_dependencies", "extract_comments", "highlight_syntax"}
    [] class = "HTMLProcessor" ->
         {"extract_links", "extract_images", "extract_tables", "extract_metadata",
          "clean_html", "base_url"}
    [] class = "PDFProcessor" ->
         {"extract_images", "ocr_images", "extract_tables", "detect_headers"}
    [] OTHER -> {}

\* processor_class(**kwargs): a keyword BaseProcessor.__init__ does not name
\* is a TypeError.  No __init__ takes or sets a language: CodeProcessor
\* detects it in process(), per content
Construct(class, kwargs) ==
  IF (kwargs \ OwnInitParams(class)) \subseteq BaseInitParams
    THEN [kind |-> "ok", class |-> class, language |-> NoneStr]
    ELSE [kind |-> "TypeError", class |-> NoneStr, language |-> NoneStr]

GetProcessorForFile(suffix) ==
  IF suffix \notin DOMAIN EXTENSION_MAPPING
    THEN [kind |-> "ValueError", class |-> NoneStr, language |-> NoneStr]
    ELSE Construct(EXTENSION_MAPPING[suffix],
                   {"use_cognee", "enable_ai", "dataset_name"} \cup {"file_path"})

\* ------------------------------------------- direct calls of the chunkers
\* line lengths around the two budgets: 499 + 1 + 500 = 1000 and
\* 511 + 1 + 512 = 1024
LineLengths == {0, 499, 500, 511, 512, 1000, 1024}
LineTexts == UNION {[1..n -> LineLengths] : n \in 1..MaxLines}

NoCall == [fn |-> NoneStr, arg |-> <<>>, out |-> <<>>]

\* the record of a call: the function, its argument, what came back
Call(fn, arg, out) == [fn |-> fn, arg |-> arg, out |-> out]

\* a call of a function that touches no store
PureFrame == UNCHANGED <<jobVars, privVars, ingested, mdSplit, mdCall>>

\* TextProcessor()._split_text(text, 1024, 128)
CallSplitText(lines) ==
  /\ lastCall' = Call("_split_text", lines,
                      SplitText(TextOfLines(lines), DefaultChunkSize, DefaultChunkOverlap))
  /\ PureFrame

\* MarkdownProcessor()._structure_aware_split(text, 1024, 128)
CallStructureAwareSplit(lines) ==
  /\ lastCall' = Call("_structure_aware_split", lines,
                      StructureAwareSplit(lines, DefaultChunkSize, DefaultChunkOverlap))
  /\ PureFrame

\* CodeProcessor().create_chunks(text)
CallCodeCreateChunks(lines) ==
  /\ lastCall' = Call("code.create_chunks", lines,
                      CodeFallbackChunks(lines, CodeChunkSize, CodeChunkOverlap))
  /\ PureFrame

\* CodeProcessor().create_chunks(text, structure, language)
CallCodeStructureChunks(len, starts) ==
  /\ lastCall' = Call("code.create_chunks.structure", [len |-> len, starts |-> starts],
                      CodeStructureChunks(len, starts))
  /\ PureFrame

\* HTMLProcessor().create_chunks(text, structure)
CallHtmlCreateChunks(text, structure) ==
  /\ lastCall' = Call("html.create_chunks", [text |-> text, structure |-> structure],
                      HtmlCreateChunks(text, structure))
  /\ PureFrame

\* PDFProcessor().create_chunks(text, structure)
CallPdfCreateChunks(text, structure) ==
  /\ lastCall' = Call("pdf.create_chunks", [text |-> text, structure |-> structure],
                      PdfCreateChunks(text, structure))
  /\ PureFrame

\* get_processor(file_path="x" + suffix), which is
\* ProcessorFactory.get_processor_for_file
CallGetProcessorForFile(suffix) ==
  /\ lastCall' = Call("get_processor_for_file", suffix, GetProcessorForFile(suffix))
  /\ PureFrame

\* await TextProcessor().process(text, document_id=doc), the whole call: the
\* split, the loop over the chunks, then the Document node
CallProcess(doc, text) ==
  /\ Len(ingested) < MaxRuns
  /\ LET split == SplitText(text, DefaultChunkSize, DefaultChunkOverlap)
         r == ProcessChunks(doc, split.chunks, 0, <<>>, vecStore, graphEdges, graphNodes)
         out == IF r.raised
                  THEN [kind |-> "AttributeError", chunk_count |-> 0]
                  ELSE [kind |-> "ok", chunk_count |-> Len(split.chunks)]
     IN /\ split.returned
        /\ vecStore' = r.vecStore
        /\ graphEdges' = r.edges
        /\ graphNodes' = IF r.raised THEN graphNodes
                         ELSE Append(graphNodes, Node("Document", doc))
        /\ lastCall' = Call("process", [doc |-> doc, text |-> text], out)
        /\ ingested' = Append(ingested, [doc |-> doc, text |-> text, kind |-> out.kind])
  /\ UNCHANGED <<nmgr, njob, job_store, kind, jmgr, pc, task, linkLog, vecLog,
                 storeFailure, issued, fileExt, enhOutcome, lastResp, privVars,
                 mdSplit, mdCall>>

\* ----------------------------- MarkdownProcessor.process on one processor
\* the calls made on the processor object, numbered in the order they begin
MdCallIds == 1..MaxRuns
NoMdCall ==
  [pc |-> "idle", structure_aware |-> FALSE, saved |-> NoneStr, md |-> <<>>,
   split |-> NoneStr, chunks |-> <<>>]

\* process(md, structure_aware=...) up to its first suspension, the await of
\* generate_embeddings in TextProcessor.process: the headers are extracted,
\* the _split_text attribute is saved and replaced when structure_aware is
\* set, and super().process has split the text with the attribute
MdBegin(c, md, structure_aware) ==
  /\ mdCall[c].pc = "idle"
  /\ c > 1 => mdCall[c - 1].pc # "idle"
  /\ LET attr == IF structure_aware THEN "structure_aware" ELSE mdSplit
         split == MdSplitWith(attr, md)
     IN /\ split.returned
        /\ mdSplit' = attr
        /\ mdCall' = [mdCall EXCEPT ![c] =
             [pc |-> "awaiting", structure_aware |-> structure_aware, saved |-> mdSplit,
              md |-> md, split |-> attr, chunks |-> split.chunks]]
  /\ UNCHANGED <<jobVars, privVars, lastCall, ingested>>

\* the rest of the call: the loop of TextProcessor.process over the chunks
\* and the Document node, under a fresh document id; when super().process
\* returns the saved attribute is put back, when it raises it is not
MdFinish(c) ==
  /\ mdCall[c].pc = "awaiting"
  /\ LET doc == <<"md", c>>
         r == ProcessChunks(doc, mdCall[c].chunks, 0, <<>>, vecStore, graphEdges, graphNodes)
     IN /\ vecStore' = r.vecStore
        /\ graphEdges' = r.edges
        /\ graphNodes' = IF r.raised THEN graphNodes
                         ELSE Append(graphNodes, Node("Document", doc))
        /\ mdSplit' = IF ~r.raised /\ mdCall[c].structure_aware
                        THEN mdCall[c].saved ELSE mdSplit
        /\ mdCall' = [mdCall EXCEPT ![c] =
             [@ EXCEPT !.pc = IF r.raised THEN "raised" ELSE "returned"]]
        /\ lastCall' = Call("markdown.process",
                            [md |-> mdCall[c].md,
                             structure_aware |-> mdCall[c].structure_aware],
                            [kind |-> IF r.raised THEN "AttributeError" ELSE "ok",
                             headers |-> ExtractHeaders(mdCall[c].md),
                             split |-> mdCall[c].split,
                             chunks |-> mdCall[c].chunks])
  /\ UNCHANGED <<nmgr, njob, job_store, kind, jmgr, pc, task, linkLog, vecLog,
                 storeFailure, issued, fileExt, enhOutcome, lastResp, privVars,
                 ingested>>

\* ------------------------------------------------------- specifications
\* the state after construction, but for the call under way
InitState ==
  /\ nmgr = 1
  /\ njob = 0
  /\ job_store = [m \in ManagerIds |-> EmptyStore]
  /\ kind = [j \in JobIds |-> NoneStr]
  /\ jmgr = [j \in JobIds |-> 0]
  /\ pc = [j \in JobIds |-> "none"]
  /\ task = [j \in JobIds |-> NoTask]
  /\ vecStore = EmptyStore
  /\ graphNodes = <<>>
  /\ graphEdges = {}
  /\ linkLog = {}
  /\ vecLog = {}
  /\ storeFailure = [j \in JobIds |-> NoFailure]
  /\ issued = {}
  /\ fileExt = [j \in JobIds |-> NoneStr]
  /\ enhOutcome = [j \in JobIds |-> NoneStr]
  /\ lastResp = NoResp
  /\ pconf = NoConf
  /\ privResult = NoPrivResult
  /\ embedLog = {}
  /\ graphLog = {}
  /\ metaLog = {}
  /\ privCalls = 0
  /\ privErr = NoneStr
  /\ ingested = <<>>
  /\ mdSplit = "default"
  /\ mdCall = [c \in MdCallIds |-> NoMdCall]

Init == InitState /\ lastCall = NoCall

\* one step of job j's background task
TaskStep(j) ==
  \/ StartText(j)
  \/ SplitTest(j)
  \/ SplitBody(j)
  \/ StoreChunk(j)
  \/ StoreDocument(j)
  \/ \E o \in EnhanceOutcomes : Enhance(j, o)
  \/ StartUrl(j)
  \/ Fetch(j)
  \/ ClientExit(j)
  \/ StartFile(j)
  \/ ReadFile(j)
  \/ StartPrivacy(j)
  \/ OtherProcess(j)

Next ==
  \/ \E m \in ManagerIds, st \in SourceTypes, ai \in BOOLEAN :
       \E t \in Inputs(st) : Ingest(m, st, t, ai)
  \/ \E st \in SourceTypes, ai \in BOOLEAN :
       \E t \in Inputs(st) : EndpointIngest(st, t, ai)
  \/ \E m \in ManagerIds, j \in QueryIds : ManagerGetStatus(m, j)
  \/ \E j \in QueryIds : EndpointStatus(j)
  \/ StatusReturned
  \/ \E j \in JobIds : TaskStep(j)

Spec == Init /\ [][Next]_vars

\* a status request is answered, and the event loop runs every task that
\* is ready again and again
LiveSpec ==
  Spec /\ WF_vars(StatusReturned) /\ \A j \in JobIds : SF_vars(TaskStep(j))

PrivNext ==
  \/ \E b \in BaseKinds, r \in BOOLEAN, a \in PiiTypesArgs : PrivConstruct(b, r, a)
  \/ \E t \in PrivTexts : PrivProcess(t)
  \/ \E t \in PrivTexts : PrivCreateChunks(t)
  \/ \E t \in PrivTexts : PrivGetEmbeddings(t)
  \/ \E md \in MetadataArgs, cs \in ChunkArgs : PrivStoreInGraph(md, cs)
  \/ \E md \in MetadataArgs, cs \in ChunkArgs : PrivStoreInVectorDb(md, cs)

PrivSpec == Init /\ [][PrivNext]_vars

\* ------------------------------------------- one manager with several jobs
\* the ids of the jobs one manager holds, and one id it never issued
StoredIds == {"job-a", "job-b"}
NamedIds == StoredIds \cup {"job-x"}

\* a record as ingest_* leaves it, and one a finished job left
StoreRecords ==
  {NewJob("text"),
   [NewJob("url") EXCEPT !.status = "completed", !.progress = ProgressCompleted,
                         !.message = Msg("URL processing completed"),
                         !.result = [present |-> TRUE, document_id |-> <<"url", 1>>,
                                     chunks_count |-> 1, has_enhancements |-> FALSE]]}

\* self.job_store with none, one or two jobs in it
JobStores == UNION {[d -> StoreRecords] : d \in SUBSET StoredIds}

\* the arguments the handlers pass to _update_job_status
StatusArgs == {NoneStr, "completed", "failed"}
ProgressArgs == {NoneProgress, ProgressFailed, ProgressStoring}
MessageArgs == {NoMessage, Msg("Storing processed content")}
ResultArgs ==
  {NoResult,
   [present |-> TRUE, document_id |-> <<"text", 2>>, chunks_count |-> 0,
    has_enhancements |-> TRUE]}

\* manager._update_job_status(job_id, status, progress, message, result)
\* on a manager whose job_store is store; the method has no await in it,
\* so no other task runs between its test and its writes
CallUpdateJobStatus(store, job_id, status, progress, message, result) ==
  /\ lastCall' = Call("_update_job_status",
                      [store |-> store, job_id |-> job_id, status |-> status,
                       progress |-> progress, message |-> message, result |-> result],
                      UpdateJobStatus(store, job_id, status, progress, message, result))
  /\ PureFrame

\* the tasks of one manager, each reporting on a job
ManagerNext ==
  \E store \in JobStores, job_id \in NamedIds, status \in StatusArgs,
     progress \in ProgressArgs, message \in MessageArgs, result \in ResultArgs :
    CallUpdateJobStatus(store, job_id, status, progress, message, result)

ManagerSpec == Init /\ [][ManagerNext]_vars

\* --------------------------------------------- _redact_text on characters
\* a text is the sequence of its characters; offsets count from 0 as in
\* Python
Digit == {"0", "1", "2", "3", "4", "5", "6", "7", "8", "9"}
Letter ==
  {"a", "b", "c", "d", "e", "f", "g", "h", "i", "j", "k", "l", "m",
   "n", "o", "p", "q", "r", "s", "t", "u", "v", "w", "x", "y", "z",
   "A", "B", "C", "D", "E", "F", "G", "H", "I", "J", "K", "L", "M",
   "N", "O", "P", "Q", "R", "S", "T", "U", "V", "W", "X", "Y", "Z"}
\* \w and \s of the re module, on ASCII text
IsWordChar(c) == c \in Letter \cup Digit \cup {"_"}
Whitespace == {" ", "\t", "\n", "\r"}

NoMatch == 0 - 1
MinOf(S) == CHOOSE x \in S : \A y \in S : x <= y

\* text[p], "" past either end
CharAt(text, p) == IF p >= 0 /\ p < Len(text) THEN text[p + 1] ELSE ""
\* text[a:b]
Slice(text, a, b) == SubSeq(text, a + 1, b)
\* \b at offset p
WordBoundary(text, p) ==
  IsWordChar(CharAt(text, p - 1)) # IsWordChar(CharAt(text, p))
\* \d{n} at offset p
DigitsAt(text, p, n) == \A i \in 0..(n - 1) : CharAt(text, p + i) \in Digit
\* the end of the longest run of characters of class that starts at p
RunEnd(text, p, class) ==
  CHOOSE e \in p..Len(text) :
    /\ \A i \in p..(e - 1) : CharAt(text, i) \in class
    /\ CharAt(text, e) \notin class
\* x? for a character class x: taken whenever it is there, since what
\* follows it in the patterns never matches a character of x
Opt(text, p, class) == IF CharAt(text, p) \in class THEN p + 1 ELSE p

\* the matchers: the end of the match that starts at s, or NoMatch
\* "ssn": \b\d{3}-\d{2}-\d{4}\b
MatchSsn(text, s) ==
  IF /\ WordBoundary(text, s)
     /\ DigitsAt(text, s, 3) /\ CharAt(text, s + 3) = "-"
     /\ DigitsAt(text, s + 4, 2) /\ CharAt(text, s + 6) = "-"
     /\ DigitsAt(text, s + 7, 4)
     /\ WordBoundary(text, s + 11)
    THEN s + 11 ELSE NoMatch

\* \d{1,3} followed by something that is not a digit: the whole run of
\* digits, when it has one to three of them
IpGroup(text, p) ==
  IF p = NoMatch THEN NoMatch
  ELSE LET e == RunEnd(text, p, Digit)
       IN IF e - p \in 1..3 THEN e ELSE NoMatch
\* \d{1,3}\.
IpGroupDot(text, p) ==
  LET e == IpGroup(text, p)
  IN IF e # NoMatch /\ CharAt(text, e) = "." THEN e + 1 ELSE NoMatch

\* "ip_address": \b\d{1,3}\.\d{1,3}\.\d{1,3}\.\d{1,3}\b
MatchIpAddress(text, s) ==
  LET e == IpGroup(text, IpGroupDot(text, IpGroupDot(text, IpGroupDot(text, s))))
  IN IF WordBoundary(text, s) /\ e # NoMatch /\ WordBoundary(text, e)
       THEN e ELSE NoMatch

\* \d{4}[- ]?
CardGroup(text, p) ==
  IF p = NoMatch \/ ~DigitsAt(text, p, 4) THEN NoMatch
  ELSE Opt(text, p + 4, {"-", " "})

\* "credit_card": \b(?:\d{4}[- ]?){3}\d{4}\b
MatchCreditCard(text, s) ==
  LET p == CardGroup(text, CardGroup(text, CardGroup(text, s)))
  IN IF /\ WordBoundary(text, s) /\ p # NoMatch
        /\ DigitsAt(text, p, 4) /\ WordBoundary(text, p + 4)
       THEN p + 4 ELSE NoMatch

\* \(?\d{3}\)?[\s.-]?\d{3}[\s.-]?\d{4}\b
PhoneRest(text, p) ==
  LET sep == Whitespace \cup {".", "-"}
      a == Opt(text, p, {"("})
      c == Opt(text, Opt(text, a + 3, {")"}), sep)
      d == Opt(text, c + 3, sep)
  IN IF /\ DigitsAt(text, a, 3) /\ DigitsAt(text, c, 3) /\ DigitsAt(text, d, 4)
        /\ WordBoundary(text, d + 4)
       THEN d + 4 ELSE NoMatch

\* "phone": \b(\+\d{1,2}\s?)?\(?\d{3}\)?[\s.-]?\d{3}[\s.-]?\d{4}\b, the
\* country code tried with two digits, then with one, then left out
MatchPhone(text, s) ==
  LET code(n) == IF CharAt(text, s) = "+" /\ DigitsAt(text, s + 1, n)
                   THEN PhoneRest(text, Opt(text, s + 1 + n, Whitespace))
                   ELSE NoMatch
  IN IF ~WordBoundary(text, s) THEN NoMatch
     ELSE IF code(2) # NoMatch THEN code(2)
     ELSE IF code(1) # NoMatch THEN code(1)
     ELSE PhoneRest(text, s)

\* [A-Z|a-z]{2,}\b from p on: the longest of the possible ends
TldEnd(text, p) ==
  LET ends == {e \in (p + 2)..RunEnd(text, p, Letter \cup {"|"}) : WordBoundary(text, e)}
  IN IF ends = {} THEN NoMatch ELSE MaxOf(ends)

\* "email": \b[A-Za-z0-9._%+-]+@[A-Za-z0-9.-]+\.[A-Z|a-z]{2,}\b, the
\* domain taken as far as the last "." that a top-level part follows
MatchEmail(text, s) ==
  LET at == RunEnd(text, s, Letter \cup Digit \cup {".", "_", "%", "+", "-"})
      dots == {e \in (at + 2)..(RunEnd(text, at + 1, Letter \cup Digit \cup {".", "-"}) - 1) :
                 CharAt(text, e) = "." /\ TldEnd(text, e + 1) # NoMatch}
  IN IF /\ WordBoundary(text, s) /\ at > s /\ CharAt(text, at) = "@"
        /\ dots # {}
       THEN TldEnd(text, MaxOf(dots) + 1) ELSE NoMatch

\* PII_PATTERNS[pii_type].match(text, s)
PatternMatch(pii_type, text, s) ==
  CASE pii_type = "email" -> MatchEmail(text, s)
    [] pii_type = "phone" -> MatchPhone(text, s)
    [] pii_type = "ssn" -> MatchSsn(text, s)
    [] pii_type = "credit_card" -> MatchCreditCard(text, s)
    [] pii_type = "ip_address" -> MatchIpAddress(text, s)

\* list(pattern.finditer(text)): the leftmost match from pos on, then the
\* search goes on at its end
RECURSIVE FindIter(_, _, _)
FindIter(pii_type, text, pos) ==
  LET starts == {s \in pos..(Len(text) - 1) : PatternMatch(pii_type, text, s) # NoMatch}
  IN IF starts = {} THEN <<>>
     ELSE LET s == MinOf(starts)
              e == PatternMatch(pii_type, text, s)
          IN <<[start |-> s, end |-> e]>> \o FindIter(pii_type, text, e)

\* f"[REDACTED:{pii_type}]"
TypeName(pii_type) ==
  CASE pii_type = "email" -> <<"e", "m", "a", "i", "l">>
    [] pii_type = "phone" -> <<"p", "h", "o", "n", "e">>
    [] pii_type = "ssn" -> <<"s", "s", "n">>
    [] pii_type = "credit_card" -> <<"c", "r", "e", "d", "i", "t", "_", "c", "a", "r", "d">>
    [] pii_type = "ip_address" -> <<"i", "p", "_", "a", "d", "d", "r", "e", "s", "s">>
\* the mutant marker is an address of its own
ReplacementAddress(pii_type) ==
  TypeName(pii_type) \o <<"@", "r", "e", "d", "a", "c", "t", "e", "d", ".", "p", "i", "i">>

Replacement(pii_type) == <<"[", "R", "E", "D", "A", "C", "T", "E", "D", ":">> \o TypeName(pii_type) \o <<"]">>

\* the mutant replaces the matches from the first to the last, with the
\* offsets finditer gave
ReplaceForward(text, matches, pii_type) ==
  LET RECURSIVE go(_, _)
      go(t, k) ==
        IF k > Len(matches) THEN t
        ELSE go(Slice(t, 0, matches[k].start) \o Replacement(pii_type)
                  \o Slice(t, matches[k].end, Len(t)), k + 1)
  IN go(text, 1)

\* for match in reversed(matches): text = text[:start] + replacement + text[end:]
ReplaceReversed(text, matches, pii_type) ==
  LET RECURSIVE go(_, _)
      go(t, k) ==
        IF k = 0 THEN t
        ELSE go(Slice(t, 0, matches[k].start) \o Replacement(pii_type)
                  \o Slice(t, matches[k].end, Len(t)), k - 1)
  IN go(text, Len(matches))

\* the loop of _redact_text over self.patterns
RECURSIVE RedactLoop(_, _, _)
RedactLoop(text, patterns, redacted_counts) ==
  IF patterns = <<>> THEN [text |-> text, redacted_counts |-> redacted_counts]
  ELSE LET pii_type == Head(patterns)
           matches == FindIter(pii_type, text, 0)
       IN IF matches = <<>>
            THEN RedactLoop(text, Tail(patterns), redacted_counts)
            ELSE RedactLoop(ReplaceReversed(text, matches, pii_type), Tail(patterns),
                            redacted_counts @@ (pii_type :> Len(matches)))

\* PrivacyCompliantProcessor(base, pii_types=pii_types)._redact_text(text)
RedactTextChars(pii_types, text) ==
  RedactLoop(text, Patterns([pii_types |-> pii_types]), EmptyStore)

\* the pieces the texts are put together from
ScenarioText == <<"C", "o", "n", "t", "a", "c", "t", ":", " ", "a", "@", "b", ".", "c", "o", "m">>
Fragments ==
  <<<<"C", "o", "n", "t", "a", "c", "t", ":", " ">>,
    <<"a", "@", "b", ".", "c", "o", "m">>,
    <<" ", "c", "@", "d", ".", "o", "r", "g">>,
    <<"5", "5", "5", "-", "1", "2", "3", "-", "4", "5", "6", "7">>,
    <<"(", "5", "5", "5", ")", "1", "2", "3", "4", "5", "6", "7">>,
    <<"+", "1", " ">>,
    <<"1", "2", "3", "-", "4", "5", "-", "6", "7", "8", "9">>,
    <<"1", "2", "3", "4", " ", "5", "6", "7", "8", " ", "9", "0", "1", "2", " ", "3", "4", "5", "6">>,
    <<"1", ".", "2", ".", "3", ".", "4">>,
    <<" ">>,
    <<"x">>,
    <<"[", "R", "E", "D", "A", "C", "T", "E", "D", ":", "e", "m", "a", "i", "l", "]">>,
    <<".">>>>
RECURSIVE Concat(_)
Concat(pieces) == IF pieces = <<>> THEN <<>> ELSE Head(pieces) \o Concat(Tail(pieces))
CharTexts ==
  {Concat([k \in 1..n |-> Fragments[pick[k]]]) :
     n \in 1..MaxFrags, pick \in [1..MaxFrags -> 1..Len(Fragments)]}
PiiTypeSets == {{"email"}, {"phone"}, {"ssn", "credit_card", "ip_address"}, PiiTypes}

\* w._redact_text(text) on a wrapper built with pii_types
CallRedactText ==
  /\ lastCall.fn = "input"
  /\ lastCall' = Call("_redact_text", lastCall.arg,
                      RedactTextChars(lastCall.arg.pii_types, lastCall.arg.text))
  /\ PureFrame

\* w._redact_text(text) on the text the first call returned
CallRedactTextAgain ==
  /\ lastCall.fn = "_redact_text"
  /\ LET arg == [pii_types |-> lastCall.arg.pii_types, text |-> lastCall.out.text]
     IN lastCall' = Call("_redact_text.again", arg,
                         RedactTextChars(arg.pii_types, arg.text))
  /\ PureFrame

\* a caller that uses the chunkers directly, one call after the other
ProcessorNext ==
  \/ \E lines \in LineTexts : CallSplitText(lines)
  \/ \E lines \in LineTexts : CallStructureAwareSplit(lines)
  \/ \E lines \in LineTexts : CallCodeCreateChunks(lines)
  \/ \E len \in 1..MaxTokens : \E starts \in ElementStarts(len) :
        CallCodeStructureChunks(len, starts)
  \/ \E text \in TokenTexts, st \in HtmlStructures : CallHtmlCreateChunks(text, st)
  \/ \E text \in TokenTexts, st \in PdfStructures : CallPdfCreateChunks(text, st)

ProcessorSpec == Init /\ [][ProcessorNext]_vars

\* a caller that asks the registry for processors and ingests texts with a
\* TextProcessor under document ids of its own
DirectNext ==
  \/ \E suffix \in Suffixes : CallGetProcessorForFile(suffix)
  \/ \E doc \in DocumentIds, text \in Texts : CallProcess(doc, text)

DirectSpec == Init /\ [][DirectNext]_vars

\* tasks that share one MarkdownProcessor and call process on it
MarkdownNext ==
  \/ \E c \in MdCallIds, md \in MdDocs, structure_aware \in BOOLEAN :
       MdBegin(c, md, structure_aware)
  \/ \E c \in MdCallIds : MdFinish(c)

MarkdownSpec == Init /\ [][MarkdownNext]_vars

\* a wrapper built with one of the sets of pattern types is handed a text
RedactInit ==
  /\ InitState
  /\ \E pii_types \in PiiTypeSets, text \in CharTexts :
       lastCall = Call("input", [pii_types |-> pii_types, text |-> text], <<>>)

RedactNext == CallRedactText \/ CallRedactTextAgain

RedactSpec == RedactInit /\ [][RedactNext]_vars

\* ----------------------------------------------------------------- claims
\* a text still holds a match of an enabled pattern
HasEnabledPii(text) ==
  \E k \in 1..Len(text) : text[k].kind = "pii" /\ text[k].type \in pconf.pii_types

C2_TerminatedOnce ==
  [][\A j \in JobIds :
       Terminal(j) => job_store'[jmgr'[j]][j] = job_store[jmgr[j]][j]]_vars

C3_InRange ==
  \A m \in ManagerIds : \A j \in DOMAIN job_store[m] :
    job_store[m][j].progress >= 0 /\ job_store[m][j].progress <= 100

C3_Monotone ==
  \A m \in ManagerIds : \A j \in DOMAIN job_store[m] :
    (job_store[m][j].status = "processing" /\ job_store'[m][j].status = "processing")
      => job_store'[m][j].progress >= job_store[m][j].progress

\* C3: every job's progress is within [0,100] in every reachable state,
\* and while a job stays in processing its progress never decreases.
C3_ProgressBoundedMonotone == []C3_InRange /\ [][C3_Monotone]_vars

\* a URL job that has passed both milestones and is still processing
C3_Witness ==
  \E j \in JobIds :
    /\ Created(j) /\ kind[j] = "url" /\ pc[j] \in {"chunk", "document", "other"}
    /\ Job(j).status = "processing" /\ Job(j).progress = ProgressProcessing

\* C4: the step that ends a job sets progress to 100 when the status
\* becomes completed and leaves the progress as it was when the status
\* becomes failed.
C4_TerminalProgress ==
  [][\A j \in JobIds :
       (Created(j) /\ Job(j).status = "processing") =>
         /\ job_store'[jmgr'[j]][j].status = "completed"
              => job_store'[jmgr'[j]][j].progress = 100
         /\ job_store'[jmgr'[j]][j].status = "failed"
              => job_store'[jmgr'[j]][j].progress = Job(j).progress]_vars

\* C5: every job that was created eventually reaches completed or failed.
C5_EventuallyTerminal ==
  \A j \in JobIds : Created(j) ~> Terminal(j)

\* C6: a status request through the endpoint for a job id that a submit
\* endpoint returned is answered with that job's record, never not-found.
C6_IssuedIdIsFound ==
  (lastResp.via = "endpoint" /\ lastResp.job \in issued) =>
    /\ lastResp.resp.kind = "ok"
    /\ lastResp.resp.status = Job(lastResp.job).status
    /\ lastResp.resp.progress = Job(lastResp.job).progress
    /\ lastResp.resp.message = Job(lastResp.job).message

C7_Answer ==
  (lastResp' # lastResp /\ lastResp'.via = "manager") =>
    LET m == lastResp'.mgr
        j == lastResp'.job
        r == lastResp'.resp
    IN /\ job_store' = job_store
       /\ j \notin DOMAIN job_store[m] => r.kind = "not_found"
       /\ j \in DOMAIN job_store[m] =>
            /\ r.kind = "ok"
            /\ r.status = job_store[m][j].status
            /\ r.progress = job_store[m][j].progress

\* C7: get_status on a manager answers an id that is not in its job store
\* with not-found and never with a Job, leaves the job store as it was, and
\* answers an id that is in the store with that job's status and progress.
C7_GetStatusNotFound == [][C7_Answer]_vars

\* a manager that holds a job was asked for another id
C7_Witness ==
  /\ lastResp.via = "manager"
  /\ lastResp.resp.kind = "not_found"
  /\ job_store[lastResp.mgr] # EmptyStore

\* C8: when a vector or graph write raised at chunk i of job j's document,
\* no write for a later chunk was committed, the job is failed, and its
\* message names the store and the chunk index i.
C8_StoreFailureReported ==
  \A j \in JobIds :
    (storeFailure[j].store # NoneStr /\ storeFailure[j].chunk # NoChunk) =>
      /\ \A w \in vecLog :
           w.doc = NewDocumentId(j) => w.chunk_index < storeFailure[j].chunk
      /\ Job(j).status = "failed"
      /\ Job(j).message.cause.store = storeFailure[j].store
      /\ Job(j).message.cause.chunk = storeFailure[j].chunk

\* the entries of the vector store that belong to document d
Entries(d) == {p \in DOMAIN vecStore : vecStore[p].id = d}

\* C9: the vector store holds one entry for every chunk write that was
\* committed for a document: no chunk's entry replaces another's.
C9_OneEntryPerChunk ==
  \A j \in JobIds :
    Cardinality(Entries(NewDocumentId(j)))
      = Cardinality({w \in vecLog : w.doc = NewDocumentId(j)})

\* C10: once a job has ended, the chunk_index values of its document's
\* persisted chunks are exactly 0..n-1 and every chunk_total equals n,
\* the number of chunks persisted.
C10_IndicesContiguous ==
  \A j \in JobIds :
    Terminal(j) =>
      LET es == Entries(NewDocumentId(j))
      IN /\ {vecStore[p].chunk_index : p \in es} = 0..(Cardinality(es) - 1)
         /\ \A p \in es : vecStore[p].chunk_total = Cardinality(es)

\* the committed vector writes of job j's document
Written(j) == {w \in vecLog : w.doc = NewDocumentId(j)}

\* C11: when a job has ended and none of its store writes raised, the graph
\* store holds the NEXT edge between every two consecutive chunks that were
\* written for its document, both Chunk nodes exist, and every NEXT edge
\* joins two chunks of one document.
C11_NextEdges ==
  /\ \A j \in JobIds :
       (Terminal(j) /\ storeFailure[j] = NoFailure) =>
         \A w \in Written(j) :
           w.chunk_index > 0 =>
             LET a == ChunkId(w.doc, w.chunk_index - 1)
                 b == ChunkId(w.doc, w.chunk_index)
             IN /\ Edge("NEXT", a, b) \in graphEdges
                /\ HasNode(graphNodes, "Chunk", a)
                /\ HasNode(graphNodes, "Chunk", b)
  /\ \A e \in graphEdges : e.type = "NEXT" => e.from[1] = e.to[1]

\* C12: when a job is completed, every chunk written for its document has
\* an entry in the vector store, a Chunk node in the graph store and a
\* HAS_CHUNK edge from the Document node to that Chunk node.
C12_ChunksInBothStores ==
  \A j \in JobIds :
    (Created(j) /\ Job(j).status = "completed") =>
      \A w \in Written(j) :
        /\ \E p \in DOMAIN vecStore :
             vecStore[p].id = w.doc /\ vecStore[p].chunk_index = w.chunk_index
        /\ HasNode(graphNodes, "Chunk", ChunkId(w.doc, w.chunk_index))
        /\ Edge("HAS_CHUNK", w.doc, ChunkId(w.doc, w.chunk_index)) \in graphEdges

\* a process call that repeats the latest one, which returned: the same
\* content under the same document id
C13_Repeated ==
  /\ ingested # <<>>
  /\ ingested[Len(ingested)].kind = "ok"
  /\ Len(ingested') = Len(ingested) + 1
  /\ ingested'[Len(ingested')].doc = ingested[Len(ingested)].doc
  /\ ingested'[Len(ingested')].text = ingested[Len(ingested)].text

\* C13: ingesting the same content under the same document id a second time
\* leaves the vector store and the graph store as the first ingestion left
\* them: no node, edge or vector entry is added or changed.
C13_ReingestIdempotent ==
  [][C13_Repeated => UNCHANGED <<vecStore, graphNodes, graphEdges>>]_vars

\* standard processing has returned: for a TextProcessor result every chunk
\* is written and the Document node exists
C14_AfterProcessing ==
  \A j \in JobIds :
    (pc[j] = "enhance" /\ ~task[j].result.has_chunks) =>
      /\ HasNode(graphNodes, "Document", task[j].result.document_id)
      /\ \A i \in 0..(task[j].result.chunk_count - 1) :
           [doc |-> task[j].result.document_id, chunk_index |-> i] \in vecLog

\* the step in which the enhancement call is made and answered
C14_Additive ==
  \A j \in JobIds :
    (pc[j] = "enhance" /\ pc'[j] # "enhance") =>
      LET after == job_store'[jmgr[j]][j]
      IN /\ after.status = "completed"
         /\ after.result.present
         /\ after.result.chunks_count = ChunksCount(task[j].result)
         /\ after.result.has_enhancements = (enhOutcome'[j] = "text")
         /\ UNCHANGED storeVars

\* C14: the enhancement capability is called only after standard processing
\* and its store writes have returned; whatever the capability does, the job
\* completes with the standard result, which has has_enhancements only when
\* the capability returned a text.
C14_EnrichmentAdditive == []C14_AfterProcessing /\ [][C14_Additive]_vars

\* a job whose enhancement call raised and which completed without
\* enhancements
C14_Witness ==
  \E j \in JobIds :
    /\ Created(j) /\ enhOutcome[j] = "raises"
    /\ Job(j).status = "completed" /\ ~Job(j).result.has_enhancements

\* C15: a text job that has ended without any store write raising is
\* completed with progress 100 and a result.
C15_TextHappyPath ==
  \A j \in JobIds :
    (Terminal(j) /\ kind[j] = "text" /\ storeFailure[j] = NoFailure) =>
      /\ Job(j).status = "completed"
      /\ Job(j).progress = ProgressCompleted
      /\ Job(j).result.present

\* C16: a file job whose suffix is in the extension table and that has ended
\* is completed with progress 100 and a result; constructing the processor
\* did not raise.
C16_KnownExtensionCompletes ==
  \A j \in JobIds :
    (Terminal(j) /\ kind[j] = "file" /\ fileExt[j] = "known") =>
      /\ Job(j).status = "completed"
      /\ Job(j).progress = ProgressCompleted
      /\ Job(j).result.present
      /\ Job(j).message.cause.type # "TypeError"

\* C17: a privacy job that has ended without any store write raising is
\* completed with a result.
C17_PrivacyCompletes ==
  \A j \in JobIds :
    (Terminal(j) /\ kind[j] = "privacy" /\ storeFailure[j] = NoFailure) =>
      /\ Job(j).status = "completed"
      /\ Job(j).result.present

\* C18: asking the registry for a processor by file path returns, for every
\* suffix of the extension table, an instance of the class mapped to it and
\* does not raise; for ".rs" it is a code processor configured for "rust".
C18_ExtensionReturnsMappedProcessor ==
  (/\ lastCall.fn = "get_processor_for_file"
   /\ lastCall.arg \in DOMAIN EXTENSION_MAPPING)
    => /\ lastCall.out.kind = "ok"
       /\ lastCall.out.class = EXTENSION_MAPPING[lastCall.arg]
       /\ lastCall.arg = ".rs" => lastCall.out.language = "rust"

\* the extraction found nothing to split the text by
NoUsableStructure(text, st) ==
  LET titles == {st.headings[k].text : k \in 1..Len(st.headings)}
                  \cup {st.toc[k].title : k \in 1..Len(st.toc)}
                  \cup {st.headers[k].text : k \in 1..Len(st.headers)}
  IN \A t \in titles : \A p \in 1..Len(text) : text[p] # t

\* C19: when the structure is missing, empty, or names only headings that
\* do not occur in the text, create_chunks of the HTML and the PDF processor
\* returns chunks and does not raise.
C19_FallbackChunking ==
  (/\ lastCall.fn \in {"html.create_chunks", "pdf.create_chunks"}
   /\ NoUsableStructure(lastCall.arg.text, lastCall.arg.structure))
    => lastCall.out.kind = "ok"

\* C20: for a text no longer than the chunker's budget, _split_text,
\* _structure_aware_split and CodeProcessor.create_chunks without structure
\* each return exactly one chunk, which is the whole text.
C20_OneChunkWithinBudget ==
  LET len == TextOfLines(lastCall.arg).len
      whole == <<[lo |-> 0, hi |-> len]>>
  IN /\ (lastCall.fn = "_split_text" /\ len <= DefaultChunkSize) =>
          (lastCall.out.returned /\ lastCall.out.chunks = whole)
     /\ (lastCall.fn = "_structure_aware_split" /\ len <= DefaultChunkSize) =>
          lastCall.out = whole
     /\ (lastCall.fn = "code.create_chunks" /\ len <= CodeChunkSize) =>
          lastCall.out = <<lastCall.arg>>

\* every offset below len lies in exactly one of the chunks
Partitioned(len, chunks) ==
  \A p \in 0..(len - 1) :
    Cardinality({k \in 1..Len(chunks) : chunks[k].lo <= p /\ p < chunks[k].hi}) = 1

\* C21: the chunks of structure-aware chunking (CodeProcessor.create_chunks
\* with a non-empty structure, HTMLProcessor.create_chunks with headings
\* found) hold every non-whitespace character of the text exactly once, the
\* text before the first element and the heading text included.
C21_StructuredChunksCoverText ==
  /\ (lastCall.fn = "html.create_chunks" /\ lastCall.out.kind = "ok")
       => Partitioned(Len(lastCall.arg.text), lastCall.out.chunks)
  /\ lastCall.fn = "code.create_chunks.structure"
       => Partitioned(lastCall.arg.len, lastCall.out)

\* the slice of the text that is line k of a markdown text
LineSpan(md, k) ==
  [lo |-> LineStart(LineLens(md), k), hi |-> LineStart(LineLens(md), k) + LineLens(md)[k]]
Contains(chunk, span) == chunk.lo <= span.lo /\ span.hi <= chunk.hi

\* C22: processing the scenario text with structure-aware chunking returns
\* the headers (1, Title) and (2, Section) and at least two chunks, the
\* first one holding the line 'Body text.' and the second 'More text.'.
C22_ScenarioHeadersAndChunks ==
  (/\ lastCall.fn = "markdown.process"
   /\ lastCall.arg.md = ScenarioDoc
   /\ lastCall.arg.structure_aware)
    => /\ lastCall.out.kind = "ok"
       /\ lastCall.out.headers = <<<<1, "Title">>, <<2, "Section">>>>
       /\ Len(lastCall.out.chunks) >= 2
       /\ Contains(lastCall.out.chunks[1], LineSpan(ScenarioDoc, 3))
       /\ Contains(lastCall.out.chunks[2], LineSpan(ScenarioDoc, 7))

\* C28: once every call of process on the processor has finished, by
\* returning or by raising, its _split_text is the default splitter again.
C28_SplitterRestored ==
  (/\ \A c \in MdCallIds : mdCall[c].pc # "awaiting"
   /\ \E c \in MdCallIds : mdCall[c].pc \in {"returned", "raised"})
    => mdSplit = "default"

\* C25: the metadata of every storage call made through the wrapper has a
\* privacy block that records whether redaction was applied and which
\* pattern types were checked, also when the metadata was written by process.
C25_StoredPrivacyBlock ==
  \A metadata \in metaLog :
    /\ "privacy" \in DOMAIN metadata
    /\ {"redacted", "pii_types_checked"} \subseteq DOMAIN metadata["privacy"]

\* C26: a status update changes only the record of the job id it names:
\* the status, progress, message and result of every other job of the store
\* are as before, and an update that names an id the store does not have
\* creates no record.
C26_UpdateTouchesOnlyNamedJob ==
  lastCall.fn = "_update_job_status" =>
    /\ DOMAIN lastCall.out = DOMAIN lastCall.arg.store
    /\ \A k \in DOMAIN lastCall.arg.store :
         k # lastCall.arg.job_id => lastCall.out[k] = lastCall.arg.store[k]

\* an update that changed the record of one of two jobs
C26_Witness ==
  /\ lastCall.fn = "_update_job_status"
  /\ DOMAIN lastCall.arg.store = StoredIds
  /\ lastCall.arg.job_id \in StoredIds
  /\ lastCall.out[lastCall.arg.job_id] # lastCall.arg.store[lastCall.arg.job_id]

\* C27: every pass through the loop of _split_text leaves the start offset
\* strictly greater than it was, so the loop ends after at most len(text)
\* passes.
C27_StartStrictlyIncreases ==
  [][\A j \in JobIds :
       (pc[j] = "split_body" /\ pc'[j] = "split_test")
         => task'[j].start > task[j].start]_vars

\* the job went through a TextProcessor, which wrote its Document node
TextProcessed(j) ==
  \E k \in 1..Len(graphNodes) : graphNodes[k] = Node("Document", NewDocumentId(j))

\* C29: the document_id in the result of a completed job is the id under
\* which the job's Document node and chunk entries were written to the
\* graph and vector stores.
C29_ReportedDocumentIdIsStoredId ==
  \A j \in JobIds :
    (Created(j) /\ Job(j).status = "completed" /\ TextProcessed(j))
      => /\ \E k \in 1..Len(graphNodes) :
              graphNodes[k] = Node("Document", Job(j).result.document_id)
         /\ \A w \in Written(j) : w.doc = Job(j).result.document_id

\* C30: the chunks_count in the result of a completed job is the number of
\* chunks the processor produced and wrote to the stores for the job.
C30_ChunksCountIsWritten ==
  \A j \in JobIds :
    (Created(j) /\ Job(j).status = "completed" /\ TextProcessed(j))
      => Job(j).result.chunks_count = Cardinality(Written(j))

\* the pattern types whose marker stands at offset p of the text
MarkersAt(text, p) ==
  {t \in PiiTypes : /\ p + Len(Replacement(t)) <= Len(text)
                    /\ Slice(text, p, p + Len(Replacement(t))) = Replacement(t)}
CountMarkers(text, t) ==
  Cardinality({p \in 0..(Len(text) - 1) : t \in MarkersAt(text, p)})

\* the pieces of a text between its markers, from offset p on
RECURSIVE Gaps(_, _, _)
Gaps(text, p, piece) ==
  IF p >= Len(text) THEN <<piece>>
  ELSE IF MarkersAt(text, p) # {}
    THEN <<piece>> \o Gaps(text, p + Len(Replacement(CHOOSE t \in MarkersAt(text, p) : TRUE)),
                          <<>>)
    ELSE Gaps(text, p + 1, Append(piece, CharAt(text, p)))

\* the pieces from the k-th on stand in the text in their order, the first
\* at its start, the last at its end, and something between any two
RECURSIVE Embedded(_, _, _, _)
Embedded(pieces, k, text, pos) ==
  \E q \in (IF k = 1 THEN {0} ELSE pos..Len(text)) :
    /\ q + Len(pieces[k]) <= Len(text)
    /\ Slice(text, q, q + Len(pieces[k])) = pieces[k]
    /\ IF k = Len(pieces) THEN q + Len(pieces[k]) = Len(text)
       ELSE Embedded(pieces, k + 1, text, q + Len(pieces[k]) + 1)

====
